---- MODULE Spec2Model ----
(***************************************************************************)
(* cluster-vision: the refresh orchestrator and snapshot store of the      *)
(* diagram server (internal/server), and the single-flight, time-gated     *)
(* freshness checkers (internal/versions).                                 *)
(***************************************************************************)
EXTENDS Integers, Sequences, FiniteSets, TLC

(***************************************************************************)
(* Bounds of the model.                                                    *)
(***************************************************************************)
\* ticks the refresh ticker delivers in one run
MaxTicks == 2
\* HTTP clients issuing GET /api/diagrams concurrently
NumReaders == 1
\* distinct (repo, chart) pairs the chart checker has to look up
NumCharts == 1

(***************************************************************************)
(* Configuration (server.Config) of the modelled deployment.               *)
(***************************************************************************)
\* Config.ClusterName
PrimaryCluster == "Homelab"

\* Config.DataSources: one secondary cluster, two infra files and one
\* source whose type the server does not know
DataSources ==
  << [name |-> "NAS",   type |-> "kubernetes"],
     [name |-> "tf",    type |-> "tfstate"],
     [name |-> "dc",    type |-> "docker-compose"],
     [name |-> "vm",    type |-> "vsphere"] >>

\* Server.k8sParsers as built by New: the primary cluster followed by every
\* kubernetes data source
k8sParsers ==
  <<PrimaryCluster>> \o
  SelectSeq([i \in 1..Len(DataSources) |-> DataSources[i].name],
            LAMBDA nm : \E i \in 1..Len(DataSources) :
                          /\ DataSources[i].name = nm
                          /\ DataSources[i].type = "kubernetes")

\* the list calls of KubernetesParser.ParseAll, in call order
ParseAllLists ==
  << "Nodes", "Flux", "Gateways", "HTTPRoutes", "Namespaces",
     "SecurityPolicies", "ClientTrafficPolicies", "ServiceEntries",
     "EastWestGateways", "LoadBalancers", "HelmReleases",
     "HelmRepositories", "Pods" >>

\* the list calls of KubernetesParser.ParseSecurity, in call order
ParseSecurityLists == << "Namespaces", "SecurityPolicies" >>

AllLists == {ParseAllLists[i] : i \in 1..Len(ParseAllLists)}

\* the sets of primary-cluster list calls that fail: none, every one of
\* them, or the calls for a single resource kind
FailurePatterns == { {}, AllLists, {"Nodes"}, {"HelmReleases"} }

\* the sets of secondary-cluster list calls that fail
SecondaryFailurePatterns ==
  { {}, {"Namespaces"}, {"Namespaces", "SecurityPolicies"} }

\* what os.ReadFile and the parsers can meet at a data source's path
FileStates == {"unreadable", "empty", "garbage", "valid"}

\* what a chart registry query can come back with
RegistryStates == {"err", "empty", "version"}

\* the data sources that are files
FileSources ==
  {DataSources[i].name : i \in {k \in 1..Len(DataSources) :
                                   DataSources[k].type # "kubernetes"}}

\* the surroundings of the server in one run: the list calls that fail on
\* the primary and on the secondary cluster, the state of each mounted file
\* and the behaviour of the chart registries
Environments ==
  [down : FailurePatterns, secDown : SecondaryFailurePatterns,
   files : [FileSources -> FileStates], registry : RegistryStates]

\* every API answers, every file is valid, the registries answer
Healthy ==
  [down |-> {}, secDown |-> {}, files |-> [n \in FileSources |-> "valid"],
   registry |-> "version"]

Goroutines == {"main", "loop"}
Readers == 1..NumReaders
Charts == 1..NumCharts

VARIABLES
  \* ---- surroundings ----
  env,          \* the element of Environments this run takes place in
  \* ---- internal/server ----
  mainPc,       \* position of Server.Start
  loopPc,       \* position of Server.refreshLoop
  ctxDone,      \* the top-level context has been cancelled
  tickPending,  \* ticker.C (capacity 1) holds a tick
  ticks,        \* ticks delivered so far
  frame,        \* per goroutine: the activation record of Server.refresh
  started,      \* refresh invocations begun so far
  returned,     \* refresh invocations that have returned
  replaced,     \* times s.data has been assigned
  muWriter,     \* s.mu is write-locked
  muReaders,    \* number of read locks held on s.mu
  data,         \* s.data
  lastGen,      \* s.lastGen
  clock,        \* wall clock as read by time.Now() in refresh
  chartLatest,  \* Checker.latest: the charts with a cached latest version
  rd,           \* per reader: the activation record of handleDiagrams
  health,       \* status code of the last GET /api/health answer (0: none)
  \* ---- history of the run ----
  dataBy,       \* ordinal of the refresh that assigned s.data
  genBy,        \* ordinal of the refresh that assigned s.lastGen
  tickOverlap,  \* the pending tick fired while a refresh was running
  anySuccess,   \* some published refresh had a primary list call succeed
  \* ---- internal/versions: one ImageChecker or NodeChecker ----
  ckKind,       \* "image" or "node": the checker the calls are made on
  now,          \* wall clock, in minutes
  checking,     \* the checking flag (atomic.Bool)
  lastCheck,    \* the lastCheck field
  cache,        \* latest, or latestOS and latestK8s: key -> cached value
  call,         \* per caller: the activation record of Check
  lastDone,     \* history: when the last check body completed
  windows,      \* history: the lastCheck values that let a call pass the gate
  \* ---- functions evaluated on their own ----
  dep,          \* the activation record of GenerateDependencies
  eval          \* the activation record of a function of internal/versions

srvVars == << env, mainPc, loopPc, ctxDone, tickPending, ticks, frame, started,
              returned, replaced, muWriter, muReaders, data, lastGen, clock,
              chartLatest, rd, health, dataBy, genBy, tickOverlap,
              anySuccess >>

chkVars == << ckKind, now, checking, lastCheck, cache, call, lastDone,
              windows >>

pureVars == << dep, eval >>

vars == << srvVars, chkVars, pureVars >>

\* what the steps of the server leave alone
notServer == << chkVars, pureVars >>

\* what the steps of a checker leave alone
notChecker == << srvVars, pureVars >>

\* everything a step of the refresh body that only touches its own locals
\* leaves alone
exceptFrame == << notServer, env, mainPc, loopPc, ctxDone, tickPending, ticks, started,
                 returned, replaced, muWriter, muReaders, data, lastGen,
                 clock, chartLatest, rd, health, dataBy, genBy, tickOverlap,
                 anySuccess >>


(***************************************************************************)
(* Diagram generators (internal/diagram), abstracted to what a refresh     *)
(* feeds them: a diagram is its id, the list results it was rendered from  *)
(* and the charts whose latest version it shows.                           *)
(***************************************************************************)
DiagramResult(id, inputs, latest) ==
  [id |-> id, inputs |-> inputs, latest |-> latest]

\* the results of the primary cluster's list calls of the given kinds that a
\* generator finds in the cluster data
Rendered(cd, kinds) == {<<PrimaryCluster, k>> : k \in cd.lists \cap kinds}

TopologyID(name) ==
  CASE name = "tf" -> "topology-tf"
    [] name = "dc" -> "topology-dc"
    [] OTHER       -> "topology-x"

generateK8sOnlyTopology(cd) ==
  DiagramResult("topology", Rendered(cd, {"Nodes"}), {})

generateMeshTopology(cd) ==
  IF cd.lists \cap {"EastWestGateways", "ServiceEntries"} = {}
  THEN << >>
  ELSE << DiagramResult("topology-mesh",
                        Rendered(cd, {"EastWestGateways", "ServiceEntries"}),
                        {}) >>

GenerateTopologySections(cd) ==
  IF Len(cd.infra) = 0
  THEN << generateK8sOnlyTopology(cd) >>
  ELSE generateMeshTopology(cd)
       \o [k \in 1..Len(cd.infra) |->
             DiagramResult(TopologyID(cd.infra[k]),
                           Rendered(cd, {"Nodes"}), {})]
       \o (IF "Nodes" \in cd.lists
           THEN << DiagramResult("topology-other", Rendered(cd, {"Nodes"}),
                                 {}) >>
           ELSE << >>)

GenerateDependencies(cd) ==
  DiagramResult("dependencies", Rendered(cd, {"Flux", "ServiceEntries"}), {})

GenerateNetwork(cd) ==
  DiagramResult("network", Rendered(cd, {"Gateways", "HTTPRoutes"}), {})

GenerateSecurity(cd) ==
  DiagramResult("security",
                Rendered(cd, {"Namespaces", "SecurityPolicies",
                              "ClientTrafficPolicies", "HTTPRoutes"})
                \cup cd.sec,
                {})

GenerateVersions(cd, latest) ==
  DiagramResult("versions", Rendered(cd, {"HelmReleases", "HelmRepositories"}),
                IF "HelmReleases" \in cd.lists THEN latest ELSE {})

\* Server.refresh, lines 166-172: the generators in their fixed order
GenerateAll(cd, latest) ==
  GenerateTopologySections(cd)
  \o << GenerateDependencies(cd), GenerateNetwork(cd), GenerateSecurity(cd),
        GenerateVersions(cd, latest) >>

(***************************************************************************)
(* File sources.                                                           *)
(***************************************************************************)
\* resolveDataSource: "err" (logged, skipped), "nil" (nothing to add) or
\* "src" (an InfraSource is appended)
resolveDataSource(ds, file) ==
  IF file = "unreadable" THEN "err"
  ELSE CASE ds.type = "tfstate" ->
              IF file = "valid" THEN "src" ELSE "nil"
         [] ds.type = "docker-compose" ->
              IF file = "garbage" THEN "err"
              ELSE IF file = "empty" THEN "nil" ELSE "src"
         [] OTHER -> "err"

(***************************************************************************)
(* Activation records.                                                     *)
(***************************************************************************)
IdleFrame ==
  [pc |-> "idle", n |-> 0, i |-> 0, j |-> 0,
   lists |-> {}, sec |-> {}, infra |-> << >>, results |-> {},
   diagrams |-> << >>,
   ctxAtStart |-> FALSE, cancelledRead |-> FALSE, fromOverlap |-> FALSE,
   waited |-> FALSE]

IdleReader == [pc |-> "idle", data |-> << >>, gen |-> 0, dataBy |-> 0,
               genBy |-> 0]

InFlight == {g \in Goroutines : frame[g].pc # "idle"}

\* the server as New leaves it
InitServer ==
  /\ mainPc = "start"
  /\ loopPc = "none"
  /\ ctxDone = FALSE
  /\ tickPending = FALSE
  /\ ticks = 0
  /\ frame = [g \in Goroutines |-> IdleFrame]
  /\ started = 0
  /\ returned = 0
  /\ replaced = 0
  /\ muWriter = FALSE
  /\ muReaders = 0
  /\ data = << >>
  /\ lastGen = 0
  /\ clock = 1
  /\ chartLatest = {}
  /\ rd = [r \in Readers |-> IdleReader]
  /\ health = 0
  /\ dataBy = 0
  /\ genBy = 0
  /\ tickOverlap = FALSE
  /\ anySuccess = FALSE

\* no checker call is made
IdleChecker ==
  /\ ckKind = "image"
  /\ now = 0
  /\ checking = FALSE
  /\ lastCheck = 0
  /\ cache = << >>
  /\ call = << >>
  /\ lastDone = 0
  /\ windows = << >>

\* no function is evaluated on its own
IdlePure ==
  /\ dep = << >>
  /\ eval = << >>

\* the server in healthy surroundings
Init ==
  /\ env = Healthy
  /\ InitServer
  /\ IdleChecker
  /\ IdlePure

\* the server in any surroundings
InitAnyEnv ==
  /\ env \in Environments
  /\ InitServer
  /\ IdleChecker
  /\ IdlePure

(***************************************************************************)
(* Server.refresh                                                          *)
(***************************************************************************)
\* entry of refresh(ctx): the body starts unconditionally
RefreshEnter(g, overlap) ==
  /\ frame' = [frame EXCEPT ![g] =
                [IdleFrame EXCEPT !.pc = "primary", !.n = started + 1,
                                  !.i = 1,
                                  !.ctxAtStart = ctxDone,
                                  !.fromOverlap = overlap]]
  /\ started' = started + 1

\* one list call of ParseAll on the primary cluster; a cancelled context or
\* a failing API makes it return nil
ListPrimary(g) ==
  LET f == frame[g]
      kind == ParseAllLists[f.i]
      err == ctxDone \/ kind \in env.down
      last == f.i = Len(ParseAllLists)
  IN /\ f.pc = "primary"
     /\ frame' = [frame EXCEPT ![g] =
          [f EXCEPT !.lists = IF err THEN @ ELSE @ \cup {kind},
                    !.i = IF last THEN 2 ELSE @ + 1,
                    !.j = IF last THEN 1 ELSE @,
                    !.pc = IF ~last THEN "primary"
                           ELSE IF Len(k8sParsers) > 1 THEN "secondary"
                           ELSE "sources"]]
     /\ UNCHANGED exceptFrame

\* one list call of ParseSecurity on a secondary cluster; after the last
\* one the merged namespaces and policies are sorted
ListSecondary(g) ==
  LET f == frame[g]
      kind == ParseSecurityLists[f.j]
      err == ctxDone \/ kind \in env.secDown
      lastCall == f.j = Len(ParseSecurityLists)
      lastParser == f.i = Len(k8sParsers)
  IN /\ f.pc = "secondary"
     /\ frame' = [frame EXCEPT ![g] =
          [f EXCEPT !.sec = IF err THEN @ ELSE @ \cup {<<k8sParsers[f.i], kind>>},
                    !.j = IF lastCall THEN 1 ELSE @ + 1,
                    !.i = IF lastCall /\ lastParser THEN 1
                          ELSE IF lastCall THEN @ + 1 ELSE @,
                    !.pc = IF lastCall /\ lastParser THEN "sources"
                           ELSE "secondary"]]
     /\ UNCHANGED exceptFrame

\* a data-source loop that gives the refresh up on the first error
SourceLoopNext_abort(f, res) ==
  IF res = "err" THEN [f EXCEPT !.pc = "return"]
  ELSE IF f.i = Len(DataSources)
  THEN [f EXCEPT !.pc = "check", !.i = 1]
  ELSE [f EXCEPT !.i = @ + 1]

\* what the data-source loop does with the outcome of resolveDataSource:
\* an error is logged and the loop continues
SourceLoopNext(f, res) ==
  IF f.i = Len(DataSources)
  THEN [f EXCEPT !.pc = "check", !.i = 1]
  ELSE [f EXCEPT !.i = @ + 1]

\* one iteration of the data-source loop
ResolveSource(g) ==
  LET f == frame[g]
      ds == DataSources[f.i]
  IN /\ f.pc = "sources"
     /\ IF ds.type = "kubernetes"
        THEN frame' = [frame EXCEPT ![g] = SourceLoopNext(f, "nil")]
        ELSE LET res == resolveDataSource(ds, env.files[ds.name])
                 f2 == IF res = "src"
                       THEN [f EXCEPT !.infra = Append(@, ds.name)]
                       ELSE f
             IN frame' = [frame EXCEPT ![g] = SourceLoopNext(f2, res)]
     /\ UNCHANGED exceptFrame


(***************************************************************************)
(* Checker.Check (chart versions), called synchronously from refresh       *)
(***************************************************************************)
\* Check, lines 44-78: the unique (repo, chart) pairs of releases whose
\* repository is known
ChartChecks(f) ==
  IF {"HelmReleases", "HelmRepositories"} \subseteq f.lists THEN Charts ELSE {}

CheckerCheck(g) ==
  LET f == frame[g]
  IN /\ f.pc = "check"
     /\ frame' = [frame EXCEPT ![g] =
          [f EXCEPT !.results = {},
                    !.i = 1,
                    !.pc = IF ChartChecks(f) = {} THEN "chartStore"
                           ELSE "chartQuery"]]
     /\ UNCHANGED exceptFrame

\* the loop over checks after one iteration
ChartLoopNext(f) ==
  IF f.i = NumCharts THEN [f EXCEPT !.pc = "chartStore", !.i = 1]
  ELSE [f EXCEPT !.pc = "chartQuery", !.i = @ + 1]

\* checkOCI / checkHTTP for one chart: an error skips the chart (and the
\* pacing sleep), an answer without a stable version records nothing
ChartQuery(g) ==
  LET f == frame[g]
      fw == [f EXCEPT !.waited = TRUE]
      res == env.registry
  IN /\ f.pc = "chartQuery"
     /\ frame' = [frame EXCEPT ![g] =
          IF res = "err" THEN ChartLoopNext(fw)
          ELSE [fw EXCEPT !.pc = "chartSleep",
                          !.results = IF res = "version"
                                      THEN @ \cup {f.i} ELSE @]]
     /\ UNCHANGED exceptFrame

\* time.Sleep(time.Second) between charts
ChartSleep(g) ==
  LET f == frame[g]
  IN /\ f.pc = "chartSleep"
     /\ frame' = [frame EXCEPT ![g] = ChartLoopNext([f EXCEPT !.waited = TRUE])]
     /\ UNCHANGED exceptFrame

\* Check, lines 105-109: the results are merged into Checker.latest
ChartStore(g) ==
  LET f == frame[g]
  IN /\ f.pc = "chartStore"
     /\ chartLatest' = chartLatest \cup f.results
     /\ frame' = [frame EXCEPT ![g] = [f EXCEPT !.pc = "generate"]]
     /\ UNCHANGED << notServer, env, mainPc, loopPc, ctxDone, tickPending, ticks, started,
                     returned, replaced, muWriter, muReaders, data, lastGen,
                     clock, rd, health, dataBy, genBy, tickOverlap,
                     anySuccess >>

(***************************************************************************)
(* Server.refresh: generation and publication                              *)
(***************************************************************************)
Generate(g) ==
  LET f == frame[g]
  IN /\ f.pc = "generate"
     /\ frame' = [frame EXCEPT ![g] =
          [f EXCEPT !.diagrams = GenerateAll(f, chartLatest), !.pc = "lock"]]
     /\ UNCHANGED exceptFrame

\* s.mu.Lock() can be acquired
CanLock == ~muWriter /\ muReaders = 0

\* a read lock that does not wait for the writer
CanRLock_ignoresWriter == TRUE

\* s.mu.RLock() can be acquired
CanRLock == ~muWriter

PublishLock(g) ==
  LET f == frame[g]
  IN /\ f.pc = "lock"
     /\ CanLock
     /\ muWriter' = TRUE
     /\ frame' = [frame EXCEPT ![g] = [f EXCEPT !.pc = "setData"]]
     /\ UNCHANGED << notServer, env, mainPc, loopPc, ctxDone, tickPending, ticks, started,
                     returned, replaced, muReaders, data, lastGen, clock,
                     chartLatest, rd, health, dataBy, genBy, tickOverlap,
                     anySuccess >>

PublishData(g) ==
  LET f == frame[g]
  IN /\ f.pc = "setData"
     /\ data' = f.diagrams
     /\ dataBy' = f.n
     /\ replaced' = replaced + 1
     /\ anySuccess' = (anySuccess \/ f.lists # {})
     /\ frame' = [frame EXCEPT ![g] = [f EXCEPT !.pc = "setLastGen"]]
     /\ UNCHANGED << notServer, env, mainPc, loopPc, ctxDone, tickPending, ticks, started,
                     returned, muWriter, muReaders, lastGen, clock,
                     chartLatest, rd, health, genBy, tickOverlap >>

PublishLastGen(g) ==
  LET f == frame[g]
  IN /\ f.pc = "setLastGen"
     /\ lastGen' = clock
     /\ clock' = clock + 1
     /\ genBy' = f.n
     /\ frame' = [frame EXCEPT ![g] = [f EXCEPT !.pc = "unlock"]]
     /\ UNCHANGED << notServer, env, mainPc, loopPc, ctxDone, tickPending, ticks, started,
                     returned, replaced, muWriter, muReaders, data,
                     chartLatest, rd, health, dataBy, tickOverlap,
                     anySuccess >>

PublishUnlock(g) ==
  LET f == frame[g]
  IN /\ f.pc = "unlock"
     /\ muWriter' = FALSE
     /\ frame' = [frame EXCEPT ![g] = [f EXCEPT !.pc = "return"]]
     /\ UNCHANGED << notServer, env, mainPc, loopPc, ctxDone, tickPending, ticks, started,
                     returned, replaced, muReaders, data, lastGen, clock,
                     chartLatest, rd, health, dataBy, genBy, tickOverlap,
                     anySuccess >>

\* refresh returns to its caller: Start goes on to start the loop, the loop
\* goes back to its select
RefreshReturn(g) ==
  /\ frame[g].pc = "return"
  /\ frame' = [frame EXCEPT ![g] = IdleFrame]
  /\ returned' = returned + 1
  /\ mainPc' = IF g # "main" THEN mainPc
               ELSE IF loopPc = "none" THEN "spawn" ELSE "listen"
  /\ loopPc' = IF g = "loop" THEN "select" ELSE loopPc
  /\ UNCHANGED << notServer, env, ctxDone, tickPending, ticks, started, replaced, muWriter,
                  muReaders, data, lastGen, clock, chartLatest, rd, health,
                  dataBy, genBy, tickOverlap, anySuccess >>

(***************************************************************************)
(* Server.Start and Server.refreshLoop                                     *)
(***************************************************************************)
\* Start, line 78: the initial refresh runs in the caller's goroutine
StartRefresh ==
  /\ mainPc = "start"
  /\ mainPc' = "refresh"
  /\ RefreshEnter("main", FALSE)
  /\ UNCHANGED << notServer, env, loopPc, ctxDone, tickPending, ticks, returned, replaced,
                  muWriter, muReaders, data, lastGen, clock, chartLatest, rd,
                  health, dataBy, genBy, tickOverlap, anySuccess >>

\* the loop launched before the initial refresh has returned
LoopLaunchPoint_early == {"refresh", "spawn"}

\* where Start is when it launches the refresh loop
LoopLaunchPoint == {"spawn"}

\* Start, line 81: the loop goroutine is launched and creates its ticker
StartLoop ==
  /\ mainPc \in LoopLaunchPoint
  /\ loopPc = "none"
  /\ loopPc' = "select"
  /\ mainPc' = IF mainPc = "spawn" THEN "listen" ELSE mainPc
  /\ UNCHANGED << notServer, env, ctxDone, tickPending, ticks, frame, started, returned,
                  replaced, muWriter, muReaders, data, lastGen, clock,
                  chartLatest, rd, health, dataBy, genBy, tickOverlap,
                  anySuccess >>

\* the ticker fires: the tick is buffered in ticker.C, or dropped when a
\* tick is already buffered
TimerFire ==
  /\ loopPc \in {"select", "refresh"}
  /\ ticks < MaxTicks
  /\ ticks' = ticks + 1
  /\ tickPending' = TRUE
  /\ tickOverlap' = IF tickPending THEN tickOverlap ELSE InFlight # {}
  /\ UNCHANGED << notServer, env, mainPc, loopPc, ctxDone, frame, started, returned,
                  replaced, muWriter, muReaders, data, lastGen, clock,
                  chartLatest, rd, health, dataBy, genBy, anySuccess >>

\* the cases of the select in refreshLoop that are ready; Go picks any of them
SelectReady ==
  (IF ctxDone THEN {"done"} ELSE {}) \cup (IF tickPending THEN {"tick"} ELSE {})

\* case <-ctx.Done(): return (the deferred ticker.Stop runs)
LoopExit ==
  /\ loopPc = "select"
  /\ "done" \in SelectReady
  /\ loopPc' = "exited"
  /\ UNCHANGED << notServer, env, mainPc, ctxDone, tickPending, ticks, frame, started,
                  returned, replaced, muWriter, muReaders, data, lastGen,
                  clock, chartLatest, rd, health, dataBy, genBy, tickOverlap,
                  anySuccess >>

\* case <-ticker.C: s.refresh(ctx)
LoopTick ==
  /\ loopPc = "select"
  /\ "tick" \in SelectReady
  /\ tickPending' = FALSE
  /\ tickOverlap' = FALSE
  /\ loopPc' = "refresh"
  /\ RefreshEnter("loop", tickOverlap)
  /\ UNCHANGED << notServer, env, mainPc, ctxDone, ticks, returned, replaced, muWriter,
                  muReaders, data, lastGen, clock, chartLatest, rd, health,
                  dataBy, genBy, anySuccess >>

\* SIGINT / SIGTERM cancels the top-level context
Cancel ==
  /\ ~ctxDone
  /\ ctxDone' = TRUE
  /\ frame' = [g \in Goroutines |->
                 IF frame[g].pc \in {"primary", "secondary"}
                 THEN [frame[g] EXCEPT !.cancelledRead = TRUE]
                 ELSE frame[g]]
  /\ UNCHANGED << notServer, env, mainPc, loopPc, tickPending, ticks, started, returned,
                  replaced, muWriter, muReaders, data, lastGen, clock,
                  chartLatest, rd, health, dataBy, genBy, tickOverlap,
                  anySuccess >>

\* Start, lines 92-97: srv.Shutdown once the context is done
Shutdown ==
  /\ ctxDone
  /\ mainPc = "serving"
  /\ mainPc' = "stopped"
  /\ UNCHANGED << notServer, env, loopPc, ctxDone, tickPending, ticks, frame, started,
                  returned, replaced, muWriter, muReaders, data, lastGen,
                  clock, chartLatest, rd, health, dataBy, genBy, tickOverlap,
                  anySuccess >>


\* Start, lines 83-99: the routes are registered and the server listens
Serve ==
  /\ mainPc = "listen"
  /\ mainPc' = "serving"
  /\ UNCHANGED << notServer, env, loopPc, ctxDone, tickPending, ticks, frame, started,
                  returned, replaced, muWriter, muReaders, data, lastGen,
                  clock, chartLatest, rd, health, dataBy, genBy, tickOverlap,
                  anySuccess >>

(***************************************************************************)
(* Read handlers                                                           *)
(***************************************************************************)
exceptReader == << notServer, env, mainPc, loopPc, ctxDone, tickPending, ticks, frame,
                   started, returned, replaced, muWriter, data, lastGen,
                   clock, chartLatest, health, dataBy, genBy, tickOverlap,
                   anySuccess >>

\* handleDiagrams, line 229: s.mu.RLock()
DiagramsRLock(r) ==
  /\ mainPc = "serving"
  /\ rd[r].pc = "idle"
  /\ CanRLock
  /\ muReaders' = muReaders + 1
  /\ rd' = [rd EXCEPT ![r] = [IdleReader EXCEPT !.pc = "readData"]]
  /\ UNCHANGED exceptReader

\* line 236: Diagrams: s.data
DiagramsReadData(r) ==
  /\ rd[r].pc = "readData"
  /\ rd' = [rd EXCEPT ![r] = [@ EXCEPT !.data = data, !.dataBy = dataBy,
                                       !.pc = "readGen"]]
  /\ UNCHANGED muReaders
  /\ UNCHANGED exceptReader

\* line 237: GeneratedAt: s.lastGen
DiagramsReadGen(r) ==
  /\ rd[r].pc = "readGen"
  /\ rd' = [rd EXCEPT ![r] = [@ EXCEPT !.gen = lastGen, !.genBy = genBy,
                                       !.pc = "encode"]]
  /\ UNCHANGED muReaders
  /\ UNCHANGED exceptReader

\* lines 240-241: the response is encoded and written to the client
DiagramsEncode(r) ==
  /\ rd[r].pc = "encode"
  /\ rd' = [rd EXCEPT ![r] = [@ EXCEPT !.pc = "sent"]]
  /\ UNCHANGED muReaders
  /\ UNCHANGED exceptReader

\* line 230: the deferred s.mu.RUnlock() runs when the handler returns
DiagramsRUnlock(r) ==
  /\ rd[r].pc = "sent"
  /\ muReaders' = muReaders - 1
  /\ rd' = [rd EXCEPT ![r] = IdleReader]
  /\ UNCHANGED exceptReader

\* handleHealth, lines 245-247: hasData := len(s.data) > 0 under the read lock
hasData == Len(data) > 0

\* handleHealth: 503 "initializing" or 200 "ok"
handleHealth ==
  /\ mainPc = "serving"
  /\ CanRLock
  /\ health' = IF ~hasData THEN 503 ELSE 200
  /\ UNCHANGED << notServer, env, mainPc, loopPc, ctxDone, tickPending, ticks, frame,
                  started, returned, replaced, muWriter, muReaders, data,
                  lastGen, clock, chartLatest, rd, dataBy, genBy,
                  tickOverlap, anySuccess >>

(***************************************************************************)
(* The server                                                              *)
(***************************************************************************)
Next ==
  \/ StartRefresh
  \/ StartLoop
  \/ Serve
  \/ TimerFire
  \/ LoopExit
  \/ LoopTick
  \/ Cancel
  \/ Shutdown
  \/ \E g \in Goroutines : ListPrimary(g)
  \/ \E g \in Goroutines : ListSecondary(g)
  \/ \E g \in Goroutines : ResolveSource(g)
  \/ \E g \in Goroutines : CheckerCheck(g)
  \/ \E g \in Goroutines : ChartQuery(g)
  \/ \E g \in Goroutines : ChartSleep(g)
  \/ \E g \in Goroutines : ChartStore(g)
  \/ \E g \in Goroutines : Generate(g)
  \/ \E g \in Goroutines : PublishLock(g)
  \/ \E g \in Goroutines : PublishData(g)
  \/ \E g \in Goroutines : PublishLastGen(g)
  \/ \E g \in Goroutines : PublishUnlock(g)
  \/ \E g \in Goroutines : RefreshReturn(g)
  \/ \E r \in Readers : DiagramsRLock(r)
  \/ \E r \in Readers : DiagramsReadData(r)
  \/ \E r \in Readers : DiagramsReadGen(r)
  \/ \E r \in Readers : DiagramsEncode(r)
  \/ \E r \in Readers : DiagramsRUnlock(r)

\* the server with clients of GET /api/diagrams, in healthy surroundings
Spec == Init /\ [][Next]_vars

\* the server from its start to the first tick of the ticker
NextStartup ==
  \/ StartRefresh
  \/ StartLoop
  \/ Serve
  \/ LoopExit
  \/ Cancel
  \/ Shutdown
  \/ \E g \in Goroutines : ListPrimary(g)
  \/ \E g \in Goroutines : ListSecondary(g)
  \/ \E g \in Goroutines : ResolveSource(g)
  \/ \E g \in Goroutines : CheckerCheck(g)
  \/ \E g \in Goroutines : ChartQuery(g)
  \/ \E g \in Goroutines : ChartSleep(g)
  \/ \E g \in Goroutines : ChartStore(g)
  \/ \E g \in Goroutines : Generate(g)
  \/ \E g \in Goroutines : PublishLock(g)
  \/ \E g \in Goroutines : PublishData(g)
  \/ \E g \in Goroutines : PublishLastGen(g)
  \/ \E g \in Goroutines : PublishUnlock(g)
  \/ \E g \in Goroutines : RefreshReturn(g)
  \/ handleHealth

\* the startup refresh and the health endpoint, in any surroundings
SpecStartup == InitAnyEnv /\ [][NextStartup]_vars


(***************************************************************************)
(* Properties of the server                                                *)
(***************************************************************************)
\* the refresh positions at which s.data has been assigned by this refresh
AfterDataSet == {"setLastGen", "unlock", "return"}

\* the refresh positions after the call of Checker.Check has returned
AfterCheck == {"generate", "lock", "setData", "setLastGen", "unlock", "return"}

\* the ids of a diagram list
DiagramIDs(ds) == {ds[k].id : k \in 1..Len(ds)}

\* a diagram list as one run of all generators leaves it
FullyBuilt(ds) ==
  /\ {"dependencies", "network", "security", "versions"} \subseteq DiagramIDs(ds)
  /\ \E k \in 1..Len(ds) :
       ds[k].id \in {"topology", "topology-mesh", "topology-tf", "topology-dc",
                     "topology-other"}

\* C1: the diagram list and the generated_at timestamp of one
\* GET /api/diagrams response were written by the same publication step of
\* one refresh, and the list is a fully built one.
C1_SnapshotAtomicity ==
  \A r \in Readers :
    rd[r].pc \in {"encode", "sent"} =>
      /\ rd[r].dataBy = rd[r].genBy
      /\ rd[r].dataBy >= 1
      /\ FullyBuilt(rd[r].data)

\* a response that carries the second snapshot is on its way while the next
\* refresh waits for the store
C1_Witness ==
  \E r \in Readers :
    /\ rd[r].pc = "sent"
    /\ rd[r].dataBy = 2
    /\ frame["loop"].pc = "lock"

\* C2: at most one execution of the refresh body is in flight.
C2_SingleFlight == Cardinality(InFlight) <= 1

\* the loop runs a refresh while the ticker has already delivered a tick
C2_Witness == frame["loop"].pc = "secondary" /\ tickPending

\* C3: a tick that fires while a refresh is running is discarded: no refresh
\* body runs because of it.
C3_OverlapDiscarded ==
  \A g \in Goroutines : frame[g].pc # "idle" => ~frame[g].fromOverlap

\* C4: a refresh that was reading the primary or a secondary cluster when
\* the cancellation arrived does not replace the snapshot store.
C4_CancelledNotPublished ==
  \A g \in Goroutines : frame[g].cancelledRead => frame[g].pc \notin AfterDataSet

\* C5: once the context is cancelled the refresh loop starts no refresh.
C5_NoRefreshAfterCancel ==
  frame["loop"].pc # "idle" => ~frame["loop"].ctxAtStart

\* the file sources resolveDataSource turns into an InfraSource, in
\* configuration order
ResolvableSources ==
  SelectSeq([i \in 1..Len(DataSources) |-> DataSources[i].name],
            LAMBDA nm : /\ nm \in FileSources
                        /\ \E i \in 1..Len(DataSources) :
                             /\ DataSources[i].name = nm
                             /\ resolveDataSource(DataSources[i],
                                                  env.files[nm]) = "src")

\* C6: whatever sources fail, a refresh that is not cancelled runs every
\* generator on all that the working sources delivered, and by its return it
\* has replaced the snapshot store exactly once.
C6_FailuresDoNotAbort ==
  /\ replaced = returned
                + Cardinality({g \in Goroutines :
                                 frame[g].pc \in AfterDataSet})
  /\ \A g \in Goroutines :
       (frame[g].pc \in {"lock", "setData"} \cup AfterDataSet /\ ~ctxDone) =>
         /\ FullyBuilt(frame[g].diagrams)
         /\ frame[g].lists = AllLists \ env.down
         /\ frame[g].sec = {<<k8sParsers[2], k>> :
                              k \in {"Namespaces", "SecurityPolicies"}
                                    \ env.secDown}
         /\ frame[g].infra = ResolvableSources

\* a primary list, a file and the registry failed, and the refresh has
\* replaced the store and returned
C6_Witness ==
  /\ ~ctxDone
  /\ env.down = {"Nodes"}
  /\ env.secDown = {"Namespaces"}
  /\ env.files["tf"] = "unreadable"
  /\ env.files["dc"] = "garbage"
  /\ env.registry = "err"
  /\ returned = 1
  /\ replaced = 1
  /\ DiagramIDs(data) = {"topology", "dependencies", "network", "security",
                         "versions"}

\* C7: GET /api/health does not answer 200 while every refresh so far has
\* had every primary list call fail.
C7_InitializingUntilSuccess == health = 200 => anySuccess

\* C8: the refresh does not sit through the chart checker's registry
\* queries and pacing sleeps before it generates and publishes.
C8_NonBlockingCheck ==
  \A g \in Goroutines : frame[g].pc \in AfterCheck => ~frame[g].waited

(***************************************************************************)
(* internal/versions: ImageChecker.Check and NodeChecker.Check             *)
(***************************************************************************)
\* ---- bounds of the checker runs ----
NumCallers == 2
TimeStep == 5
MaxTime == 35

\* the interval gate of both checkers, in minutes
GateMinutes == 15

Callers == 1..NumCallers

\* The clock counts minutes from the zero time.Time, which is the value of
\* lastCheck in a new checker; the process starts at least one gate
\* interval after it.
StartTime == GateMinutes

\* the repos of the pods handed to ImageChecker.Check, as the grouping loop
\* leaves them: registry (its dot-separated labels), path and deployed tags
Repos ==
  { [registry |-> << "ghcr", "io" >>, path |-> "a", tags |-> {"1.0"}],
    [registry |-> << "ghcr", "io" >>, path |-> "b", tags |-> {"2.0"}],
    [registry |-> << "registry", "local" >>, path |-> "c",
     tags |-> {"3.0"}],
    [registry |-> << "docker", "io" >>, path |-> "library/d",
     tags |-> {"4.0"}],
    [registry |-> << "registry-1", "docker", "io" >>, path |-> "library/e",
     tags |-> {"5.0"}] }

\* the arguments a caller may hand to ImageChecker.Check
RepoSets == { {r \in Repos : r.path \in {"a", "b", "c"}},
              {r \in Repos : r.path \in {"library/d", "library/e"}} }

\* the distros and kubelet minors of the nodes handed to NodeChecker.Check
Distros == {"talos", "ubuntu"}
MinorVersions == {"1.31"}
knownDistros == {"talos", "k3s"}

\* the keys of ImageChecker.latest: image|tag
ImageKeys == UNION { { << r.registry, r.path, t >> : t \in r.tags } :
                     r \in Repos }

\* the maps of a new checker: no key has a value
EmptyCache ==
  [latest |-> [k \in ImageKeys |-> ""],
   latestOS |-> [d \in Distros |-> ""],
   latestK8s |-> [m \in MinorVersions |-> ""]]

\* the outcomes of one registry or GitHub request
ListTagsResults == {"ok", "429", "err"}
FetchResults == {"ok", "err"}

\* skipRegistry: contains ".svc.cluster.local", ends in ".local" or starts
\* with "localhost"
skipRegistry(registry) ==
  \/ \E i \in 2..Len(registry) - 2 :
       /\ registry[i] = "svc"
       /\ registry[i + 1] = "cluster"
       /\ registry[i + 2] = "local"
  \/ Len(registry) >= 2 /\ registry[Len(registry)] = "local"
  \/ Len(registry) >= 1 /\ registry[1] = "localhost"

\* a caller that is not inside Check
IdleCall ==
  [pc |-> "idle", overlapped |-> FALSE, outcome |-> "none",
   gateAt |-> 0, doneSeen |-> 0,
   arg |-> {}, repos |-> {}, distros |-> {}, minorVersions |-> {},
   cur |-> << >>,
   skipRegistries |-> {}, limitedHosts |-> {}, afterLimit |-> {},
   queried |-> FALSE, wrote |-> FALSE, stamped |-> FALSE]

\* the positions at which a caller holds the checking flag
Running == {"gate", "loop", "query", "sleep", "stamp", "unflag"}

\* the positions inside the check body
Body == {"loop", "query", "sleep", "stamp"}

\* a new checker with its callers, at process start
InitChk ==
  /\ env = Healthy
  /\ InitServer
  /\ ckKind \in {"image", "node"}
  /\ now = StartTime
  /\ checking = FALSE
  /\ lastCheck = 0
  /\ cache = EmptyCache
  /\ call = [c \in Callers |-> IdleCall]
  /\ lastDone = 0
  /\ windows = << >>
  /\ IdlePure

\* everything of the checker but the flag and the callers
exceptCall == << ckKind, now, lastCheck, cache, lastDone, windows >>

\* checking.CompareAndSwap(old, new) succeeds
CompareAndSwap_always(flag, old) == TRUE

CompareAndSwap(flag, old) == flag = old

\* time.Since(last) < 15*time.Minute
tooSoon_never(last) == FALSE

tooSoon(last) == now - last < GateMinutes

\* entry of Check: the single-flight flag; a caller that loses returns
Check(c) ==
  /\ call[c].pc = "idle"
  /\ LET ov == \E d \in Callers \ {c} : call[d].pc \in Running
     IN IF CompareAndSwap(checking, FALSE)
        THEN /\ checking' = TRUE
             /\ call' = [call EXCEPT ![c] =
                  [IdleCall EXCEPT !.pc = "gate", !.overlapped = ov]]
        ELSE /\ UNCHANGED checking
             /\ call' = [call EXCEPT ![c] =
                  [IdleCall EXCEPT !.outcome = "overlap", !.overlapped = ov]]
  /\ UNCHANGED << notChecker, exceptCall >>

\* the interval gate, read under the read lock; past it the arguments are
\* grouped into the repos, or the distros and minor versions, to check
CheckGate(c) ==
  /\ call[c].pc = "gate"
  /\ IF tooSoon(lastCheck)
     THEN /\ call' = [call EXCEPT ![c].pc = "unflag",
                                  ![c].outcome = "tooSoon",
                                  ![c].gateAt = now,
                                  ![c].doneSeen = lastDone]
          /\ UNCHANGED windows
     ELSE /\ \E rs \in RepoSets :
               call' = [call EXCEPT
                 ![c].pc = "loop",
                 ![c].outcome = "ran",
                 ![c].gateAt = now,
                 ![c].doneSeen = lastDone,
                 ![c].arg = IF ckKind = "image" THEN rs ELSE {},
                 ![c].repos = IF ckKind = "image" THEN rs ELSE {},
                 ![c].distros = IF ckKind = "node" THEN Distros ELSE {},
                 ![c].minorVersions =
                    IF ckKind = "node" THEN MinorVersions ELSE {}]
          /\ windows' = Append(windows, lastCheck)
  /\ UNCHANGED << notChecker, ckKind, now, checking, lastCheck, cache,
                  lastDone >>

\* listTags: the host the tag-list request of a registry is sent to
registryHost(registry) ==
  IF registry = << "docker", "io" >> THEN << "registry-1", "docker", "io" >>
  ELSE registry

\* history: the repos handled once their host has answered 429
AfterLimit(k, ri) ==
  IF registryHost(ri.registry) \in k.limitedHosts THEN k.afterLimit \cup {ri}
  ELSE k.afterLimit

\* setResults: value for every tag of the image
setResults(latest, ri, value) ==
  [k \in ImageKeys |->
     IF k[1] = ri.registry /\ k[2] = ri.path /\ k[3] \in ri.tags
     THEN value ELSE latest[k]]

\* ImageChecker.Check, head of the loop over repos (map order): a skipped
\* repo gets "-" without a request; after the last repo the loop ends
ImageLoopNext(c) ==
  /\ ckKind = "image"
  /\ call[c].pc = "loop"
  /\ IF call[c].repos = {}
     THEN /\ call' = [call EXCEPT ![c].pc = "stamp"]
          /\ UNCHANGED cache
     ELSE \E ri \in call[c].repos :
            IF skipRegistry(ri.registry)
               \/ ri.registry \in call[c].skipRegistries
            THEN /\ cache' = [cache EXCEPT
                      !.latest = setResults(cache.latest, ri, "-")]
                 /\ call' = [call EXCEPT
                      ![c].repos = @ \ {ri},
                      ![c].wrote = TRUE,
                      ![c].afterLimit = AfterLimit(call[c], ri)]
            ELSE /\ call' = [call EXCEPT
                      ![c].repos = @ \ {ri},
                      ![c].cur = ri,
                      ![c].afterLimit = AfterLimit(call[c], ri),
                      ![c].pc = "query"]
                 /\ UNCHANGED cache
  /\ UNCHANGED << notChecker, ckKind, now, checking, lastCheck, lastDone,
                  windows >>

\* listTags and what follows it: on an error "-" (and the registry is
\* skipped from now on after a 429), else the highest matching tags
ImageListTags(c) ==
  /\ ckKind = "image"
  /\ call[c].pc = "query"
  /\ \E res \in ListTagsResults :
       LET ri == call[c].cur
       IN /\ cache' = [cache EXCEPT !.latest =
                 setResults(cache.latest, ri,
                            IF res = "ok" THEN "latest" ELSE "-")]
          /\ call' = [call EXCEPT
               ![c].pc = "sleep",
               ![c].queried = TRUE,
               ![c].wrote = TRUE,
               ![c].skipRegistries =
                  IF res = "429" THEN @ \cup {ri.registry} ELSE @,
               ![c].limitedHosts =
                  IF res = "429" THEN @ \cup {registryHost(ri.registry)}
                  ELSE @,
               ![c].afterLimit =
                  IF res = "429" THEN @ \cup {ri} ELSE @]
  /\ UNCHANGED << notChecker, ckKind, now, checking, lastCheck, lastDone,
                  windows >>

\* NodeChecker.Check, head of the loops over distros, then over minor
\* versions (map order): an unknown distro is passed over
NodeLoopNext(c) ==
  /\ ckKind = "node"
  /\ call[c].pc = "loop"
  /\ IF call[c].distros # {}
     THEN \E distro \in call[c].distros :
            call' = [call EXCEPT
              ![c].distros = @ \ {distro},
              ![c].cur = << "distro", distro >>,
              ![c].pc = IF distro \in knownDistros THEN "query" ELSE "loop"]
     ELSE IF call[c].minorVersions # {}
     THEN \E minor \in call[c].minorVersions :
            call' = [call EXCEPT
              ![c].minorVersions = @ \ {minor},
              ![c].cur = << "minor", minor >>,
              ![c].pc = "query"]
     ELSE call' = [call EXCEPT ![c].pc = "stamp"]
  /\ UNCHANGED << notChecker, exceptCall, checking >>

\* fetchLatestGitHubRelease or fetchLatestK8sPatch: a failure is logged
\* and the loop continues, a result is stored and followed by the pause
NodeFetch(c) ==
  /\ ckKind = "node"
  /\ call[c].pc = "query"
  /\ \E res \in FetchResults :
       IF res = "err"
       THEN /\ call' = [call EXCEPT ![c].pc = "loop", ![c].queried = TRUE]
            /\ UNCHANGED cache
       ELSE /\ call' = [call EXCEPT ![c].pc = "sleep",
                                    ![c].queried = TRUE,
                                    ![c].wrote = TRUE]
            /\ cache' =
                 IF call[c].cur[1] = "distro"
                 THEN [cache EXCEPT !.latestOS[call[c].cur[2]] = "latest"]
                 ELSE [cache EXCEPT !.latestK8s[call[c].cur[2]] = "latest"]
  /\ UNCHANGED << notChecker, ckKind, now, checking, lastCheck, lastDone,
                  windows >>

\* time.Sleep between two requests
CheckSleep(c) ==
  /\ call[c].pc = "sleep"
  /\ call' = [call EXCEPT ![c].pc = "loop"]
  /\ UNCHANGED << notChecker, exceptCall, checking >>

\* lastCheck = time.Now() under the write lock: the body is complete
CheckStamp(c) ==
  /\ call[c].pc = "stamp"
  /\ lastCheck' = now
  /\ lastDone' = now
  /\ call' = [call EXCEPT ![c].pc = "unflag", ![c].stamped = TRUE]
  /\ UNCHANGED << notChecker, ckKind, now, checking, cache, windows >>

\* the deferred checking.Store(false), then Check returns
CheckReturn(c) ==
  /\ call[c].pc = "unflag"
  /\ checking' = FALSE
  /\ call' = [call EXCEPT ![c].pc = "idle"]
  /\ UNCHANGED << notChecker, exceptCall >>

\* the wall clock advances
TimePasses ==
  /\ now + TimeStep <= MaxTime
  /\ now' = now + TimeStep
  /\ UNCHANGED << notChecker, ckKind, checking, lastCheck, cache, call,
                  lastDone, windows >>

NextChk ==
  \/ \E c \in Callers : Check(c)
  \/ \E c \in Callers : CheckGate(c)
  \/ \E c \in Callers : ImageLoopNext(c)
  \/ \E c \in Callers : ImageListTags(c)
  \/ \E c \in Callers : NodeLoopNext(c)
  \/ \E c \in Callers : NodeFetch(c)
  \/ \E c \in Callers : CheckSleep(c)
  \/ \E c \in Callers : CheckStamp(c)
  \/ \E c \in Callers : CheckReturn(c)
  \/ TimePasses

\* concurrent callers of one checker while time passes
SpecChk == InitChk /\ [][NextChk]_vars

\* C9: on the image checker and on the node checker, whatever the
\* interleaving of the callers, at most one call is inside the check body,
\* and a call that began while another call held the checker has returned
\* at once, having made no request, written no cache entry and left
\* lastCheck alone.
C9_CheckerSingleFlight ==
  /\ Cardinality({c \in Callers : call[c].pc \in Body}) <= 1
  /\ \A c \in Callers :
       call[c].overlapped =>
         /\ call[c].pc = "idle"
         /\ call[c].outcome = "overlap"
         /\ ~call[c].queried
         /\ ~call[c].wrote
         /\ ~call[c].stamped

\* a call has been turned away at entry while another call was in the
\* middle of a request
C9_Witness ==
  \E c, d \in Callers :
    /\ call[c].pc = "query"
    /\ call[d].overlapped
    /\ call[d].outcome = "overlap"

\* C10: a call that reads the clock less than 15 minutes after the last
\* check body completed makes no request and writes no cache entry, the
\* body only runs when 15 minutes have passed since the last completion,
\* and no two calls have passed the gate on the same value of lastCheck.
C10_TimeGate ==
  /\ \A c \in Callers :
       (call[c].queried \/ call[c].wrote \/ call[c].stamped
        \/ call[c].pc \in Body)
         => call[c].gateAt - call[c].doneSeen >= GateMinutes
  /\ \A c \in Callers :
       call[c].pc \in Body => now - lastDone >= GateMinutes
  /\ \A i, j \in 1..Len(windows) : i # j => windows[i] # windows[j]

\* two bodies have run, each in its own window, and a later call has been
\* refused by the gate
C10_Witness ==
  \E c \in Callers :
    /\ call[c].outcome = "tooSoon"
    /\ call[c].pc = "idle"
    /\ call[c].gateAt - call[c].doneSeen < GateMinutes
    /\ Len(windows) >= 2

(***************************************************************************)
(* Checker.Check (chart versions) as an operation of its own               *)
(***************************************************************************)
\* the configured refresh interval handed to NewChecker, in minutes
RefreshInterval == 5

\* a caller that is not inside Checker.Check
IdleChartCall == [checks |-> {}, results |-> {}] @@ IdleCall

\* the server variables but Checker.latest
exceptChartLatest ==
  << env, mainPc, loopPc, ctxDone, tickPending, ticks, frame, started,
     returned, replaced, muWriter, muReaders, data, lastGen, clock, rd,
     health, dataBy, genBy, tickOverlap, anySuccess, pureVars >>

\* a new chart checker with its callers, at process start
InitChart ==
  /\ env = Healthy
  /\ InitServer
  /\ ckKind = "chart"
  /\ now = StartTime
  /\ checking = FALSE
  /\ lastCheck = 0
  /\ cache = EmptyCache
  /\ call = [c \in Callers |-> IdleChartCall]
  /\ lastDone = 0
  /\ windows = << >>
  /\ IdlePure

\* the loop over checks (slice order) after one iteration
ChartCheckNext(k) ==
  IF k.checks = {} THEN [k EXCEPT !.pc = "chartStore"]
  ELSE [k EXCEPT !.pc = "chartQuery"]

\* ---- bound of the chart checks: the most charts of one check ----
MaxChecks == 2

\* entry of Check: the unique (repo, chart) pairs are collected and the
\* loop over them starts; nothing is tested before it
ChartCheck(c) ==
  /\ call[c].pc = "idle"
  /\ \E n \in 0..MaxChecks :
       call' = [call EXCEPT ![c] =
         ChartCheckNext([IdleChartCall EXCEPT
           !.overlapped = \E d \in Callers \ {c} : call[d].pc # "idle",
           !.outcome = "ran",
           !.gateAt = now,
           !.doneSeen = lastDone,
           !.checks = 1..n])]
  /\ UNCHANGED << notChecker, exceptCall, checking >>

\* checkOCI / checkHTTP for the next chart: an error skips the chart and
\* the pause, an answer without a stable version records nothing
ChartCheckQuery(c) ==
  /\ call[c].pc = "chartQuery"
  /\ LET ch == CHOOSE x \in call[c].checks : \A y \in call[c].checks : x <= y
         k == [call[c] EXCEPT !.queried = TRUE, !.checks = @ \ {ch}]
     IN \E res \in RegistryStates :
          call' = [call EXCEPT ![c] =
            IF res = "err" THEN ChartCheckNext(k)
            ELSE [k EXCEPT !.pc = "chartSleep",
                           !.results = IF res = "version"
                                       THEN @ \cup {ch} ELSE @]]
  /\ UNCHANGED << notChecker, exceptCall, checking >>

\* time.Sleep(time.Second) between charts
ChartCheckSleep(c) ==
  /\ call[c].pc = "chartSleep"
  /\ call' = [call EXCEPT ![c] = ChartCheckNext(call[c])]
  /\ UNCHANGED << notChecker, exceptCall, checking >>

\* the results are merged into Checker.latest and Check returns
ChartCheckStore(c) ==
  /\ call[c].pc = "chartStore"
  /\ chartLatest' = chartLatest \cup call[c].results
  /\ lastDone' = now
  /\ call' = [call EXCEPT ![c].pc = "idle",
                          ![c].wrote = call[c].results # {}]
  /\ UNCHANGED << exceptChartLatest, ckKind, now, checking, lastCheck,
                  cache, windows >>

\* the wall clock advances between and during chart checks
ChartTimePasses == TimePasses

NextChart ==
  \/ \E c \in Callers : ChartCheck(c)
  \/ \E c \in Callers : ChartCheckQuery(c)
  \/ \E c \in Callers : ChartCheckSleep(c)
  \/ \E c \in Callers : ChartCheckStore(c)
  \/ ChartTimePasses

\* concurrent callers of the chart checker while time passes
SpecChart == InitChart /\ [][NextChart]_vars

\* C11: a chart Check call that began while another chart check was running
\* has returned without a request, and every chart Check call that sent a
\* request began at least the refresh interval after the previous chart
\* check completed.
C11_ChartCheckGated ==
  \A c \in Callers :
    /\ call[c].overlapped => call[c].pc = "idle" /\ ~call[c].queried
    /\ call[c].queried =>
         call[c].gateAt - call[c].doneSeen >= RefreshInterval

(***************************************************************************)
(* Lookups in the image freshness cache                                    *)
(***************************************************************************)
\* ImageChecker.GetLatest(image, tag): the map entry, "" when there is none
GetLatest(ri, tag) == cache.latest[<< ri.registry, ri.path, tag >>]

\* GenerateImages: the Latest column for a looked-up value
ImageRowLatest(v) == IF v # "" THEN v ELSE "-"

\* the repos a running image check has not finished yet
Unfinished(c) ==
  call[c].repos \cup (IF call[c].pc = "query" THEN {call[c].cur} ELSE {})

\* C12: while an image check is running, a lookup for a deployed tag of a
\* repo that the check has finished returns a value the check wrote, and a
\* lookup for a deployed tag of a repo it has not finished yet is shown as
\* "-", never as a version left by an earlier check.
C12_IncrementalVisibility ==
  \A c \in Callers :
    (ckKind = "image" /\ call[c].pc \in {"loop", "query", "sleep"}) =>
      /\ \A ri \in call[c].arg \ Unfinished(c) : \A t \in ri.tags :
           GetLatest(ri, t) # ""
      /\ \A ri \in Unfinished(c) : \A t \in ri.tags :
           ImageRowLatest(GetLatest(ri, t)) = "-"

\* C13: within one image check cycle, no tag-list request goes to a host
\* that has answered 429 in this cycle, and every deployed tag of every repo
\* handled on such a host from the 429 on (the repo that got the 429
\* included) is recorded as "-".
C13_RateLimitSkip ==
  \A c \in Callers :
    (ckKind = "image" /\ call[c].pc \in Running) =>
      /\ call[c].pc = "query" =>
           registryHost(call[c].cur.registry) \notin call[c].limitedHosts
      /\ \A ri \in call[c].afterLimit : \A t \in ri.tags :
           GetLatest(ri, t) = "-"

(***************************************************************************)
(* internal/diagram: GenerateDependencies                                  *)
(* Strings are sequences of character codes, so that comparison, lower     *)
(* casing, prefixes and substrings are computed as the code computes them. *)
(***************************************************************************)
\* ---- bounds of the dependency runs ----
MaxDeps == 2

\* the separator of cluster and name in a node id
Slash == 47
\* the separator of cluster and service in a service entry name
Dash == 45

\* strings.ToLower
ToLower(s) ==
  [i \in DOMAIN s |-> IF s[i] >= 65 /\ s[i] <= 90 THEN s[i] + 32 ELSE s[i]]

\* a < b for strings (byte-wise)
StrLess(a, b) ==
  \E i \in 1..Len(a) + 1 :
    /\ \A j \in 1..i - 1 : j <= Len(b) /\ a[j] = b[j]
    /\ \/ i = Len(a) + 1 /\ Len(b) >= i
       \/ i <= Len(a) /\ i <= Len(b) /\ a[i] < b[i]

\* strings.HasPrefix
HasPrefix(s, p) ==
  Len(p) <= Len(s) /\ \A i \in 1..Len(p) : s[i] = p[i]

\* strings.Contains
Contains(s, sub) ==
  \E k \in 0..Len(s) - Len(sub) : \A i \in 1..Len(sub) : s[k + i] = sub[i]

\* the clusters "N" and "h", and the kustomization names "a", "ab", "p"
ClusterN == << 78 >>
ClusterH == << 104 >>
FluxNames == { << 97 >>, << 97, 98 >>, << 112 >> }

\* the DependsOn lists a kustomization may carry
DependsOnLists == {ds \in SUBSET FluxNames : Cardinality(ds) <= MaxDeps}

\* data.Flux: nothing at all, or the three kustomizations of cluster N with
\* any dependencies among them and one kustomization of cluster h, whose
\* dependency (if any) names a kustomization that only cluster N has
FluxInputs ==
  { << >> } \cup
  { << [Cluster |-> ClusterN, Name |-> << 97 >>, DependsOn |-> d1],
       [Cluster |-> ClusterN, Name |-> << 97, 98 >>, DependsOn |-> d2],
       [Cluster |-> ClusterN, Name |-> << 112 >>, DependsOn |-> d3],
       [Cluster |-> ClusterH, Name |-> << 97 >>, DependsOn |-> d4] >> :
    d1 \in DependsOnLists, d2 \in DependsOnLists, d3 \in DependsOnLists,
    d4 \in { {}, { << 97, 98 >> } } }

\* k.Cluster + "/" + k.Name
NodeID(cluster, name) == cluster \o << Slash >> \o name

\* the orders in which a map's keys may be ranged over
Orders(S) ==
  {q \in [1..Cardinality(S) -> S] : \A i, j \in DOMAIN q : i # j => q[i] # q[j]}

\* GenerateDependencies before its first statement
StartDeps(flux) ==
  [pc |-> "build", flux |-> flux, idSet |-> {}, depGraph |-> << >>,
   reduced |-> << >>, nodesTodo |-> {}, node |-> << >>, depsTodo |-> {},
   d |-> << >>, stack |-> << >>, visited |-> {}, found |-> FALSE,
   nodes |-> << >>, edges |-> << >>, ses |-> << >>]

\* GenerateDependencies is called with some cluster data
InitDeps ==
  /\ env = Healthy
  /\ InitServer
  /\ IdleChecker
  /\ dep \in {StartDeps(flux) : flux \in FluxInputs}
  /\ eval = << >>

\* what a step of GenerateDependencies leaves alone
notDeps == << srvVars, chkVars, eval >>

\* the dependencies of a kustomization that are kept in the graph: those
\* whose cluster-qualified id is the id of some kustomization
SameClusterDeps_unfiltered(k, ids) ==
  {NodeID(k.Cluster, x) : x \in k.DependsOn}

SameClusterDeps(k, ids) ==
  {NodeID(k.Cluster, x) : x \in k.DependsOn} \cap ids

\* no kustomizations: the empty flow; else the id set and the dependency
\* graph restricted to dependencies that exist in the same cluster
DepsBuild ==
  /\ dep.pc = "build"
  /\ IF Len(dep.flux) = 0
     THEN dep' = [dep EXCEPT !.pc = "done"]
     ELSE LET ids == {NodeID(dep.flux[i].Cluster, dep.flux[i].Name) :
                        i \in DOMAIN dep.flux}
              depsOf(id) ==
                UNION { SameClusterDeps(dep.flux[i], ids) :
                        i \in {j \in DOMAIN dep.flux :
                                 NodeID(dep.flux[j].Cluster,
                                        dep.flux[j].Name) = id} }
              g == [id \in ids |-> depsOf(id)]
          IN dep' = [dep EXCEPT !.pc = "reduce", !.idSet = ids,
                                !.depGraph = g, !.reduced = g,
                                !.nodesTodo = ids]
  /\ UNCHANGED notDeps

\* transitiveReduce, outer loop over the nodes of the graph (map order)
ReduceNextNode ==
  /\ dep.pc = "reduce"
  /\ IF dep.nodesTodo = {}
     THEN dep' = [dep EXCEPT !.pc = "emit", !.node = << >>, !.d = << >>,
                             !.stack = << >>, !.visited = {},
                             !.found = FALSE]
     ELSE \E n \in dep.nodesTodo :
            dep' = [dep EXCEPT !.pc = "deps", !.node = n,
                               !.nodesTodo = @ \ {n},
                               !.depsTodo = dep.depGraph[n]]
  /\ UNCHANGED notDeps

\* transitiveReduce, loop over the deps of the node (map order): the search
\* starts from the node's other deps, pushed in map order
ReduceNextDep ==
  /\ dep.pc = "deps"
  /\ IF dep.depsTodo = {}
     THEN dep' = [dep EXCEPT !.pc = "reduce"]
     ELSE \E x \in dep.depsTodo :
          \E q \in Orders(dep.depGraph[dep.node] \ {x}) :
            dep' = [dep EXCEPT !.pc = "dfs", !.d = x,
                               !.depsTodo = @ \ {x},
                               !.stack = q, !.visited = {},
                               !.found = FALSE]
  /\ UNCHANGED notDeps

\* one iteration of the search loop: pop; the dep itself ends the search,
\* an unvisited node is marked and its deps are pushed in map order
DfsStep ==
  /\ dep.pc = "dfs"
  /\ Len(dep.stack) > 0 /\ ~dep.found
  /\ LET cur == dep.stack[Len(dep.stack)]
         rest == SubSeq(dep.stack, 1, Len(dep.stack) - 1)
     IN IF cur = dep.d
        THEN dep' = [dep EXCEPT !.stack = rest, !.found = TRUE]
        ELSE IF cur \notin dep.visited
        THEN \E q \in Orders(dep.depGraph[cur]) :
               dep' = [dep EXCEPT !.stack = rest \o q,
                                  !.visited = @ \cup {cur}]
        ELSE dep' = [dep EXCEPT !.stack = rest]
  /\ UNCHANGED notDeps

\* delete(reduced[node], dep) if the search found the dep
Pruned_never(deps, x, found) == deps

Pruned(deps, x, found) == IF found THEN deps \ {x} ELSE deps

\* the search loop has ended: a dep that was found is deleted from the
\* reduced graph
DfsEnd ==
  /\ dep.pc = "dfs"
  /\ ~(Len(dep.stack) > 0 /\ ~dep.found)
  /\ dep' = [dep EXCEPT
       !.pc = "deps",
       !.reduced[dep.node] = Pruned(@, dep.d, dep.found)]
  /\ UNCHANGED notDeps

\* ---- the service entries of the cluster data ----
MaxSE == 2

\* the network label of a cluster ends in this suffix ("-n" stands for
\* "-network")
NetworkSuffix == << Dash, 110 >>
\* the name the fall-back of findBestKust looks for ("p" stands for
\* "platform")
Platform == << 112 >>

\* service entries: "h-a" in N towards network "H-n", "n-a" in h towards
\* "n-n", a mesh-internal one, one without network label, and "n-ab" in N
\* towards N's own network
ServiceEntries ==
  { [Cluster |-> ClusterN, Name |-> << 104, Dash, 97 >>,
     Location |-> "MESH_EXTERNAL", Network |-> << 72 >> \o NetworkSuffix],
    [Cluster |-> ClusterH, Name |-> << 110, Dash, 97 >>,
     Location |-> "MESH_EXTERNAL", Network |-> << 110 >> \o NetworkSuffix],
    [Cluster |-> ClusterN, Name |-> << 97 >>,
     Location |-> "MESH_INTERNAL", Network |-> << 104 >> \o NetworkSuffix],
    [Cluster |-> ClusterN, Name |-> << 97 >>,
     Location |-> "MESH_EXTERNAL", Network |-> << >>],
    [Cluster |-> ClusterN, Name |-> << 110, Dash, 97, 98 >>,
     Location |-> "MESH_EXTERNAL", Network |-> << 110 >> \o NetworkSuffix] }

\* data.ServiceEntries
SEInputs == UNION { [1..n -> ServiceEntries] : n \in 0..MaxSE }

\* the keys of a set of strings in ascending order (sort.Strings)
RECURSIVE SortStrings(_)
SortStrings(S) ==
  IF S = {} THEN << >>
  ELSE LET m == CHOOSE x \in S : \A y \in S \ {x} : StrLess(x, y)
       IN << m >> \o SortStrings(S \ {m})

\* the nodes, one per kustomization, sorted by id (sort.Slice)
FlowNodes(flux) ==
  SortSeq([i \in DOMAIN flux |->
             [ID |-> NodeID(flux[i].Cluster, flux[i].Name),
              Label |-> flux[i].Name,
              Cluster |-> flux[i].Cluster]],
          LAMBDA x, y : StrLess(x.ID, y.ID))

\* the edges of the reduced graph: for every id in ascending order, one
\* edge from each of its remaining deps in ascending order
RECURSIVE EdgesOf(_, _, _)
EdgesOf(reduced, allIDs, i) ==
  IF i > Len(allIDs) THEN << >>
  ELSE LET id == allIDs[i]
           sortedDeps == SortStrings(reduced[id])
       IN [k \in DOMAIN sortedDeps |->
             [Source |-> sortedDeps[k], Target |-> id,
              CrossCluster |-> FALSE]]
          \o EdgesOf(reduced, allIDs, i + 1)

\* findBestKust, first loop: the kustomization of the cluster whose name
\* contains the service name, the shorter the better
RECURSIVE bestMatch(_, _, _, _, _, _)
bestMatch(flux, cluster, svcLower, i, bestID, bestScore) ==
  IF i > Len(flux) THEN bestID
  ELSE LET k == flux[i]
           nameLower == ToLower(k.Name)
           score == 100 - Len(nameLower)
       IN IF k.Cluster = cluster /\ Contains(nameLower, svcLower)
             /\ (score > bestScore \/ bestID = << >>)
          THEN bestMatch(flux, cluster, svcLower, i + 1,
                         NodeID(k.Cluster, k.Name), score)
          ELSE bestMatch(flux, cluster, svcLower, i + 1, bestID, bestScore)

\* findBestKust: the best match, else the first kustomization of the
\* cluster with "platform" in its name, else ""
findBestKust(flux, cluster, svcName) ==
  LET best == bestMatch(flux, cluster, ToLower(svcName), 1, << >>, 0)
      plat == {i \in DOMAIN flux :
                 /\ flux[i].Cluster = cluster
                 /\ Contains(ToLower(flux[i].Name), Platform)}
  IN IF best # << >> THEN best
     ELSE IF plat = {} THEN << >>
     ELSE LET i == CHOOSE x \in plat : \A y \in plat : x <= y
          IN NodeID(flux[i].Cluster, flux[i].Name)

\* the key under which an edge is remembered: the sorted pair of its ends
pairKey_ordered(sourceKust, targetKust) == << targetKust, sourceKust >>

pairKey(sourceKust, targetKust) ==
  IF StrLess(sourceKust, targetKust) THEN << sourceKust, targetKust >>
  ELSE << targetKust, sourceKust >>

\* discoverCrossClusterEdges, the loop over the service entries from the
\* i-th on, with the pairs seen and the edges found so far
RECURSIVE crossEdges(_, _, _, _, _, _)
crossEdges(flux, ses, idSet, i, seen, edges) ==
  IF i > Len(ses) THEN edges
  ELSE
    LET se == ses[i]
        skip == crossEdges(flux, ses, idSet, i + 1, seen, edges)
        clusterNames == {flux[k].Cluster : k \in DOMAIN flux}
        targets == {n \in clusterNames :
                      ToLower(n) \o NetworkSuffix = ToLower(se.Network)}
    IN IF se.Location # "MESH_EXTERNAL" \/ se.Network = << >> THEN skip
       ELSE IF targets = {} THEN skip
       ELSE
         LET targetCluster == CHOOSE n \in targets : TRUE
             sourceCluster == se.Cluster
             prefix == ToLower(targetCluster) \o << Dash >>
             svcName == IF HasPrefix(ToLower(se.Name), prefix)
                        THEN SubSeq(se.Name, Len(prefix) + 1, Len(se.Name))
                        ELSE se.Name
             sourceKust == findBestKust(flux, sourceCluster, svcName)
             targetKust == findBestKust(flux, targetCluster, svcName)
             key == pairKey(sourceKust, targetKust)
         IN IF sourceCluster = targetCluster THEN skip
            ELSE IF sourceKust = << >> \/ targetKust = << >> THEN skip
            ELSE IF sourceKust \notin idSet \/ targetKust \notin idSet
            THEN skip
            ELSE IF key \in seen THEN skip
            ELSE crossEdges(flux, ses, idSet, i + 1, seen \cup {key},
                            Append(edges,
                                   [Source |-> targetKust,
                                    Target |-> sourceKust,
                                    CrossCluster |-> TRUE]))

discoverCrossClusterEdges(flux, ses, idSet) ==
  crossEdges(flux, ses, idSet, 1, {}, << >>)

\* GenerateDependencies after the reduction: the sorted nodes and the
\* edges of the reduced graph
DepsEmit ==
  /\ dep.pc = "emit"
  /\ dep' = [dep EXCEPT
       !.pc = "cross",
       !.nodes = FlowNodes(dep.flux),
       !.edges = EdgesOf(dep.reduced, SortStrings(DOMAIN dep.depGraph), 1)]
  /\ UNCHANGED notDeps

\* the end of GenerateDependencies: the cross-cluster edges of the service
\* entries, which are read here for the first time, are appended
DepsCross ==
  /\ dep.pc = "cross"
  /\ \E ses \in SEInputs :
       dep' = [dep EXCEPT
         !.pc = "done",
         !.ses = ses,
         !.edges = @ \o discoverCrossClusterEdges(dep.flux, ses, dep.idSet)]
  /\ UNCHANGED notDeps

NextDeps ==
  \/ DepsBuild
  \/ ReduceNextNode
  \/ ReduceNextDep
  \/ DfsStep
  \/ DfsEnd
  \/ DepsEmit
  \/ DepsCross

\* GenerateDependencies on any of the inputs
SpecDeps == InitDeps /\ [][NextDeps]_vars

\* the same, every step being taken eventually: the function is executed
\* by one goroutine that is never suspended for ever
SpecDepsFair == SpecDeps /\ WF_vars(NextDeps)

\* ---- what the flow says ----
\* "depends on" among the emitted same-cluster edges
SameClusterRel ==
  { << dep.edges[k].Target, dep.edges[k].Source >> :
      k \in {i \in DOMAIN dep.edges : ~dep.edges[i].CrossCluster} }

\* the nodes that can be reached from the set S along R in any number of
\* steps
RECURSIVE ReachFrom(_, _)
ReachFrom(R, S) ==
  LET T == S \cup {r[2] : r \in {q \in R : q[1] \in S}}
  IN IF T = S THEN S ELSE ReachFrom(R, T)

\* there is a path of one or more edges of R from a to b
PathExists(R, a, b) == b \in ReachFrom(R, {r[2] : r \in {q \in R : q[1] = a}})

\* the input edges whose two ends exist in the same cluster
InputEdges ==
  UNION { { << NodeID(dep.flux[i].Cluster, dep.flux[i].Name),
               NodeID(dep.flux[i].Cluster, x) >> :
            x \in dep.flux[i].DependsOn } : i \in DOMAIN dep.flux }
  \cap (dep.idSet \X dep.idSet)

\* C14: for every input edge (a, b) with both ends in one cluster, cycles
\* and self-dependencies included, the emitted same-cluster edges still
\* hold a path from a to b.
C14_ReachabilityKept ==
  dep.pc = "done" =>
    \A e \in InputEdges : PathExists(SameClusterRel, e[1], e[2])

\* the deployments A, B(deps=[A]), C(deps=[A,B]) as "a", "ab", "p" of N
ChainExample ==
  /\ Len(dep.flux) > 0
  /\ dep.flux[1].DependsOn = {}
  /\ dep.flux[2].DependsOn = { << 97 >> }
  /\ dep.flux[3].DependsOn = { << 97 >>, << 97, 98 >> }

\* C15: for every emitted same-cluster edge (a, b), b cannot be reached
\* from a over another emitted edge out of a, so no path of two or more
\* edges leads from a to b; and A, B(deps=[A]), C(deps=[A,B]) yield exactly
\* A->B and B->C.
C15_NoRedundantEdge ==
  dep.pc = "done" =>
    /\ \A e \in SameClusterRel :
         ~\E f \in SameClusterRel :
            /\ f[1] = e[1]
            /\ f[2] # e[2]
            /\ e[2] \in ReachFrom(SameClusterRel, {f[2]})
    /\ ChainExample =>
         {r \in SameClusterRel : r[1][1] = ClusterN[1]} =
           { << NodeID(ClusterN, << 97, 98 >>), NodeID(ClusterN, << 97 >>) >>,
             << NodeID(ClusterN, << 112 >>),
                NodeID(ClusterN, << 97, 98 >>) >> }

\* the chain example has been reduced to its two edges
C15_Witness ==
  /\ dep.pc = "done"
  /\ ChainExample
  /\ Cardinality(SameClusterRel) = 2

\* every edge of the flow has both ends in the node list
EdgesValid ==
  \A k \in DOMAIN dep.edges :
    /\ \E n \in DOMAIN dep.nodes : dep.nodes[n].ID = dep.edges[k].Source
    /\ \E n \in DOMAIN dep.nodes : dep.nodes[n].ID = dep.edges[k].Target

\* C16: on every dependency graph, cycles and self-loops included, the
\* reduction comes to an end and GenerateDependencies returns, and the flow
\* it returns has every edge between two nodes of its node list.
C16_CycleSafety ==
  /\ <>(dep.pc = "done")
  /\ [](dep.pc = "done" => EdgesValid)

\* a graph with a self-loop and a cycle of two has been turned into a flow
\* with edges
C16_Witness ==
  /\ dep.pc = "done"
  /\ \E a \in dep.idSet : a \in dep.depGraph[a]
  /\ \E a, b \in dep.idSet :
       a # b /\ b \in dep.depGraph[a] /\ a \in dep.depGraph[b]
  /\ Len(dep.edges) > 0

\* (source, target) of one edge is at most that of another
EdgeLessEq(e, f) ==
  \/ StrLess(e.Source, f.Source)
  \/ e.Source = f.Source /\ (StrLess(e.Target, f.Target) \/ e.Target = f.Target)

\* C17: the node list is in ascending order of id, and the whole edge list,
\* same-cluster edges followed by cross-cluster edges, is in ascending
\* order of (source, target).
C17_Ordering ==
  dep.pc = "done" =>
    /\ \A i, j \in DOMAIN dep.nodes :
         i < j => (StrLess(dep.nodes[i].ID, dep.nodes[j].ID)
                   \/ dep.nodes[i].ID = dep.nodes[j].ID)
    /\ \A i, j \in DOMAIN dep.edges :
         i < j => EdgeLessEq(dep.edges[i], dep.edges[j])

\* the cluster of the node with the given id
ClusterOf(id) ==
  {dep.nodes[n].Cluster : n \in {m \in DOMAIN dep.nodes : dep.nodes[m].ID = id}}

\* C18: every cross-cluster edge stems from a MESH_EXTERNAL service entry
\* with a network label, runs from a node of the cluster that the label
\* names to a node of the service entry's own cluster, the two clusters
\* differ, both ends are in the node list, and no two cross-cluster edges
\* join the same two nodes.
C18_CrossClusterWellFormed ==
  dep.pc = "done" =>
    /\ \A k \in DOMAIN dep.edges :
         dep.edges[k].CrossCluster =>
           \E i \in DOMAIN dep.ses :
             LET se == dep.ses[i]
             IN /\ se.Location = "MESH_EXTERNAL"
                /\ se.Network # << >>
                /\ \E provider \in ClusterOf(dep.edges[k].Source) :
                     /\ ToLower(provider) \o NetworkSuffix
                          = ToLower(se.Network)
                     /\ provider # se.Cluster
                /\ se.Cluster \in ClusterOf(dep.edges[k].Target)
    /\ \A k, l \in DOMAIN dep.edges :
         (k # l /\ dep.edges[k].CrossCluster /\ dep.edges[l].CrossCluster)
           => {dep.edges[k].Source, dep.edges[k].Target}
                # {dep.edges[l].Source, dep.edges[l].Target}

\* two service entries that point at each other's cluster have given one
\* cross-cluster edge
C18_Witness ==
  /\ dep.pc = "done"
  /\ Len(dep.ses) = 2
  /\ dep.ses[1].Cluster # dep.ses[2].Cluster
  /\ \A i \in DOMAIN dep.ses :
       dep.ses[i].Location = "MESH_EXTERNAL" /\ dep.ses[i].Network # << >>
  /\ Cardinality({k \in DOMAIN dep.edges : dep.edges[k].CrossCluster}) = 1

(***************************************************************************)
(* internal/versions: parseSemver and semver.less                          *)
(***************************************************************************)
\* the characters version strings and tags are made of
Dot == 46
Plus == 43
LetterV == 118

IsDigit(c) == c >= 48 /\ c <= 57

\* strconv.Atoi succeeds on a part (parts hold no sign: the string is cut
\* at the first '-' or '+' before it is split)
AtoiOK(s) == Len(s) >= 1 /\ \A i \in DOMAIN s : IsDigit(s[i])

\* strconv.Atoi, the number
RECURSIVE Atoi(_)
Atoi(s) ==
  IF Len(s) = 0 THEN 0
  ELSE Atoi(SubSeq(s, 1, Len(s) - 1)) * 10 + (s[Len(s)] - 48)

\* strings.Split(s, ".")
RECURSIVE SplitDot(_)
SplitDot(s) ==
  LET dots == {i \in DOMAIN s : s[i] = Dot}
  IN IF dots = {} THEN << s >>
     ELSE LET i == CHOOSE x \in dots : \A y \in dots : x <= y
          IN << SubSeq(s, 1, i - 1) >> \o SplitDot(SubSeq(s, i + 1, Len(s)))

\* parseSemver: the leading "v" is dropped, the pre-release starts at the
\* first '-' or '+', two or three numeric parts remain
parseSemver(original) ==
  LET s1 == IF Len(original) >= 1 /\ original[1] = LetterV
            THEN Tail(original) ELSE original
      cut == {i \in DOMAIN s1 : s1[i] = Dash \/ s1[i] = Plus}
      idx == IF cut = {} THEN 0
             ELSE CHOOSE x \in cut : \A y \in cut : x <= y
      pre == IF idx = 0 THEN << >> ELSE SubSeq(s1, idx, Len(s1))
      s2 == IF idx = 0 THEN s1 ELSE SubSeq(s1, 1, idx - 1)
      parts == SplitDot(s2)
      bad == [ok |-> FALSE, major |-> 0, minor |-> 0, patch |-> 0,
              pre |-> << >>, original |-> << >>]
  IN IF Len(parts) < 2 \/ Len(parts) > 3 THEN bad
     ELSE IF ~AtoiOK(parts[1]) \/ ~AtoiOK(parts[2]) THEN bad
     ELSE IF Len(parts) = 3 /\ ~AtoiOK(parts[3]) THEN bad
     ELSE [ok |-> TRUE, major |-> Atoi(parts[1]), minor |-> Atoi(parts[2]),
           patch |-> IF Len(parts) = 3 THEN Atoi(parts[3]) ELSE 0,
           pre |-> pre, original |-> original]

\* a.less(b), with the last comparison the other way round
less_preReversed(a, b) ==
  IF a.major # b.major THEN a.major < b.major
  ELSE IF a.minor # b.minor THEN a.minor < b.minor
  ELSE IF a.patch # b.patch THEN a.patch < b.patch
  ELSE IF a.pre # << >> /\ b.pre = << >> THEN FALSE
  ELSE IF a.pre = << >> /\ b.pre # << >> THEN TRUE
  ELSE StrLess(a.pre, b.pre)

\* a.less(b)
less(a, b) ==
  IF a.major # b.major THEN a.major < b.major
  ELSE IF a.minor # b.minor THEN a.minor < b.minor
  ELSE IF a.patch # b.patch THEN a.patch < b.patch
  ELSE IF a.pre # << >> /\ b.pre = << >> THEN TRUE
  ELSE IF a.pre = << >> /\ b.pre # << >> THEN FALSE
  ELSE StrLess(a.pre, b.pre)

\* version strings: an optional "v", major "1" or "01", minor "0" or "1",
\* an optional patch ".0" or ".1", an optional "-r", "-s" or "+b"; and
\* strings parseSemver turns down: "1", "1.x", "1..0", "1.0.0.0", ""
VersionStrings ==
  { v \o ma \o << Dot >> \o mi \o pa \o pr :
      v \in { << >>, << LetterV >> },
      ma \in { << 49 >>, << 48, 49 >> },
      mi \in { << 48 >>, << 49 >> },
      pa \in { << >>, << Dot, 48 >>, << Dot, 49 >> },
      pr \in { << >>, << Dash, 114 >>, << Dash, 115 >>, << Plus, 98 >> } }
  \cup { << 49 >>, << 49, Dot, 120 >>, << 49, Dot, Dot, 48 >>,
         << 49, Dot, 48, Dot, 48, Dot, 48 >>, << >> }

\* two version strings are about to be parsed and compared
InitSemver ==
  /\ env = Healthy
  /\ InitServer
  /\ IdleChecker
  /\ dep = << >>
  /\ eval \in {[pc |-> "call", a |-> a, b |-> b, pa |-> << >>, pb |-> << >>,
                lessAB |-> FALSE, lessBA |-> FALSE] :
               a \in VersionStrings, b \in VersionStrings}

\* what an evaluation of a function of internal/versions leaves alone
notEval == << srvVars, chkVars, dep >>

\* parseSemver on both strings and, if both are accepted, less both ways
SemverLess ==
  /\ eval.pc = "call"
  /\ LET pa == parseSemver(eval.a)
         pb == parseSemver(eval.b)
     IN eval' = [eval EXCEPT
          !.pc = "done", !.pa = pa, !.pb = pb,
          !.lessAB = pa.ok /\ pb.ok /\ less(pa, pb),
          !.lessBA = pa.ok /\ pb.ok /\ less(pb, pa)]
  /\ UNCHANGED notEval

NextSemver == SemverLess

\* the comparison of any two version strings
SpecSemver == InitSemver /\ [][NextSemver]_vars

\* the parts of a parsed version that take part in the comparison
Precedence(p) == << p.major, p.minor, p.patch, p.pre >>

\* both strings have been accepted and compared
Compared == eval.pc = "done" /\ eval.pa.ok /\ eval.pb.ok

\* C19 as stated: for accepted version strings a and b, less(a,b) holds
\* exactly when less(b,a) does not hold and the strings a and b differ.
C19_TrichotomyOnStrings ==
  Compared => (eval.lessAB <=> (~eval.lessBA /\ eval.a # eval.b))

\* C19, amended: for accepted version strings a and b, less(a,b) holds
\* exactly when less(b,a) does not hold and a and b differ in major, minor,
\* patch or pre-release; and with equal major, minor and patch a version
\* with a pre-release is less than the one without.
C19_Trichotomy ==
  Compared =>
    /\ eval.lessAB <=>
         (~eval.lessBA /\ Precedence(eval.pa) # Precedence(eval.pb))
    /\ ( /\ eval.pa.major = eval.pb.major
         /\ eval.pa.minor = eval.pb.minor
         /\ eval.pa.patch = eval.pb.patch
         /\ eval.pa.pre # << >>
         /\ eval.pb.pre = << >> ) => eval.lessAB

\* two different strings of one version have been compared, like "v1.0"
\* and "01.0.0"
C19_Witness ==
  /\ Compared
  /\ eval.a # eval.b
  /\ Precedence(eval.pa) = Precedence(eval.pb)
  /\ ~eval.lessAB /\ ~eval.lessBA

(***************************************************************************)
(* internal/versions: extractVariant and highestMatchingTag                *)
(***************************************************************************)
\* ---- bound of the tag selection runs ----
MaxTags == 3

\* the end of the run of digits that starts at position i of s
RECURSIVE DigitsEnd(_, _)
DigitsEnd(s, i) ==
  IF i + 1 <= Len(s) /\ IsDigit(s[i + 1]) THEN DigitsEnd(s, i + 1) ELSE i

\* \d+\.\d+ matches at position i of s
SemverAt(s, i) ==
  /\ IsDigit(s[i])
  /\ LET j == DigitsEnd(s, i)
     IN j + 2 <= Len(s) /\ s[j + 1] = Dot /\ IsDigit(s[j + 2])

\* extractVariant: the match of ^(.*?)(\d+\.\d+(?:\.\d+)?)(.*?)$, which
\* starts at the first position where the middle group matches and takes
\* the longest middle group there; then parseSemver on the middle group
extractVariant(tag) ==
  LET starts == {i \in DOMAIN tag : SemverAt(tag, i)}
  IN IF starts = {}
     THEN [ok |-> FALSE, prefix |-> << >>, suffix |-> << >>,
           sv |-> parseSemver(<< >>)]
     ELSE LET i == CHOOSE x \in starts : \A y \in starts : x <= y
              j == DigitsEnd(tag, DigitsEnd(tag, i) + 2)
              k == IF j + 2 <= Len(tag) /\ tag[j + 1] = Dot
                      /\ IsDigit(tag[j + 2])
                   THEN DigitsEnd(tag, j + 2) ELSE j
              sv == parseSemver(SubSeq(tag, i, k))
          IN [ok |-> sv.ok, prefix |-> SubSeq(tag, 1, i - 1),
              suffix |-> SubSeq(tag, k + 1, Len(tag)), sv |-> sv]

Pipe == 124

\* variant.key: prefix + "|" + suffix
key(v) == v.prefix \o << Pipe >> \o v.suffix

\* a candidate replaces the best tag so far
Beats_orEqual(bestSV, sv) == ~less(sv, bestSV)

Beats(bestSV, sv) == less(bestSV, sv)

\* highestMatchingTag, the loop over allTags from the i-th on
RECURSIVE bestFrom(_, _, _, _, _)
bestFrom(deployedVariant, allTags, i, bestTag, bestSV) ==
  IF i > Len(allTags) THEN bestTag
  ELSE LET t == allTags[i]
           x == extractVariant(t)
       IN IF ~x.ok
             \/ key(x) # key(deployedVariant)
             \/ x.sv.pre # << >>
             \/ ~Beats(bestSV, x.sv)
          THEN bestFrom(deployedVariant, allTags, i + 1, bestTag, bestSV)
          ELSE bestFrom(deployedVariant, allTags, i + 1, t, x.sv)

\* highestMatchingTag; "-" is the string of the one character '-'
highestMatchingTag(deployedTag, allTags) ==
  LET d == extractVariant(deployedTag)
  IN IF ~d.ok THEN << Dash >>
     ELSE bestFrom(d, allTags, 1, deployedTag, d.sv)

\* tags: 1.20-a, 1.21-a, 1.21.0-a, 1.21, 1.20, 1.22-s, v1.21, and "l", which
\* holds no version ("-a" stands for "-alpine", "-s" for "-slim", "l" for
\* "latest")
Tags ==
  { << 49, Dot, 50, 48, Dash, 97 >>, << 49, Dot, 50, 49, Dash, 97 >>,
    << 49, Dot, 50, 49, Dot, 48, Dash, 97 >>, << 49, Dot, 50, 49 >>,
    << 49, Dot, 50, 48 >>, << 49, Dot, 50, 50, Dash, 115 >>,
    << LetterV, 49, Dot, 50, 49 >>, << 108 >> }

\* the candidate lists
TagLists == UNION { [1..n -> Tags] : n \in 0..MaxTags }

\* a deployed tag and the tag list of its repo are about to be compared
InitTags ==
  /\ env = Healthy
  /\ InitServer
  /\ IdleChecker
  /\ dep = << >>
  /\ eval \in {[pc |-> "call", deployedTag |-> d, allTags |-> T,
                out |-> << >>] : d \in Tags, T \in TagLists}

HighestMatchingTag ==
  /\ eval.pc = "call"
  /\ eval' = [eval EXCEPT
       !.pc = "done",
       !.out = highestMatchingTag(eval.deployedTag, eval.allTags)]
  /\ UNCHANGED notEval

NextTags == HighestMatchingTag

\* tag selection for any deployed tag and candidate list
SpecTags == InitTags /\ [][NextTags]_vars

\* the candidates that share the deployed tag's prefix and suffix and whose
\* version has no pre-release
Eligible ==
  LET d == extractVariant(eval.deployedTag)
  IN {eval.allTags[i] : i \in
        {k \in DOMAIN eval.allTags :
           LET x == extractVariant(eval.allTags[k])
           IN /\ x.ok
              /\ x.prefix = d.prefix
              /\ x.suffix = d.suffix
              /\ x.sv.pre = << >>}}

\* C20: the result is "-" when the deployed tag holds no version; else it
\* is the deployed tag or an eligible candidate, no eligible candidate has
\* a higher version than it, and it is the deployed tag itself when no
\* eligible candidate is higher than the deployed tag; 1.20-alpine with
\* candidates 1.21-alpine, 1.21, 1.22-slim gives 1.21-alpine.
C20_VariantAwareSelection ==
  eval.pc = "done" =>
    LET d == extractVariant(eval.deployedTag)
        highest == extractVariant(eval.out)
    IN /\ ~d.ok => eval.out = << Dash >>
       /\ d.ok =>
            /\ eval.out \in Eligible \cup {eval.deployedTag}
            /\ \A t \in Eligible : ~less(highest.sv, extractVariant(t).sv)
            /\ (\A t \in Eligible : ~less(d.sv, extractVariant(t).sv))
                 => eval.out = eval.deployedTag
       /\ ( /\ eval.deployedTag = << 49, Dot, 50, 48, Dash, 97 >>
            /\ eval.allTags = << << 49, Dot, 50, 49, Dash, 97 >>,
                                 << 49, Dot, 50, 49 >>,
                                 << 49, Dot, 50, 50, Dash, 115 >> >> )
            => eval.out = << 49, Dot, 50, 49, Dash, 97 >>

\* a candidate of the same variant has beaten the deployed tag while a
\* candidate of another variant with a higher version was passed over
C20_Witness ==
  /\ eval.pc = "done"
  /\ eval.deployedTag = << 49, Dot, 50, 48, Dash, 97 >>
  /\ eval.out = << 49, Dot, 50, 49, Dash, 97 >>
  /\ \E i \in DOMAIN eval.allTags :
       eval.allTags[i] = << 49, Dot, 50, 50, Dash, 115 >>

(***************************************************************************)
(* internal/versions: one tag-list query of a check, page by page          *)
(* (listTags, fetchWithAuth, getToken; checkOCI, fetchWithAuthPaginated)   *)
(***************************************************************************)
\* strings.IndexByte, counted from 1; 0 when c is not in s
IndexByte(s, c) ==
  LET at == {i \in DOMAIN s : s[i] = c}
  IN IF at = {} THEN 0 ELSE CHOOSE x \in at : \A y \in at : x <= y

\* strings.Index, counted from 1; 0 when sub is not in s
Index(s, sub) ==
  LET at == {k \in 1..Len(s) - Len(sub) + 1 :
               \A i \in 1..Len(sub) : s[k + i - 1] = sub[i]}
  IN IF at = {} THEN 0 ELSE CHOOSE x \in at : \A y \in at : x <= y

\* strings.Split(s, c) for a separator of one character
RECURSIVE Split(_, _)
Split(s, c) ==
  LET i == IndexByte(s, c)
  IN IF i = 0 THEN << s >>
     ELSE << SubSeq(s, 1, i - 1) >> \o Split(SubSeq(s, i + 1, Len(s)), c)

\* strings.Trim(s, cutset) for a cutset of one character
RECURSIVE Trim(_, _)
Trim(s, c) ==
  IF Len(s) >= 1 /\ s[1] = c THEN Trim(Tail(s), c)
  ELSE IF Len(s) >= 1 /\ s[Len(s)] = c THEN Trim(SubSeq(s, 1, Len(s) - 1), c)
  ELSE s

\* strings.TrimSpace, for the space character
TrimSpace(s) == Trim(s, 32)

\* strings.TrimPrefix
TrimPrefix(s, p) ==
  IF HasPrefix(s, p) THEN SubSeq(s, Len(p) + 1, Len(s)) ELSE s

\* strconv.Itoa of a status code (three digits)
Itoa(n) ==
  << 48 + (n \div 100), 48 + ((n \div 10) % 10), 48 + (n % 10) >>

\* extractHost: scheme and host of a URL
extractHost(rawURL) ==
  LET idx == Index(rawURL, << 47, 47 >>)
  IN IF idx = 0 THEN rawURL
     ELSE LET rest == SubSeq(rawURL, idx + 2, Len(rawURL))
              slash == IndexByte(rest, Slash)
          IN IF slash = 0 THEN rawURL
             ELSE SubSeq(rawURL, 1, idx + slash)

\* parseLinkNext, over the parts of the header from the i-th on
RECURSIVE linkNextFrom(_, _, _)
linkNextFrom(parts, i, currentURL) ==
  IF i > Len(parts) THEN << >>
  ELSE LET part == TrimSpace(parts[i])
           start == IndexByte(part, 60)
           end == IndexByte(part, 62)
       IN IF ~Contains(part, << 114, 101, 108, 61, 34, 110, 101, 120, 116, 34 >>)
             \/ start = 0 \/ end = 0 \/ end <= start
          THEN linkNextFrom(parts, i + 1, currentURL)
          ELSE LET nextPath == SubSeq(part, start + 1, end - 1)
               IN IF HasPrefix(nextPath, << Slash >>)
                  THEN extractHost(currentURL) \o nextPath
                  ELSE nextPath

\* parseLinkNext: the URL of the next page, "" when there is none
parseLinkNext(link, currentURL) ==
  IF link = << >> THEN << >>
  ELSE linkNextFrom(Split(link, 44), 1, currentURL)

\* parseAuthParams, over the parts from the i-th on: the value of key k,
\* the last part with that key winning as in the map
RECURSIVE authParamFrom(_, _, _, _)
authParamFrom(parts, i, k, sofar) ==
  IF i > Len(parts) THEN sofar
  ELSE LET part == TrimSpace(parts[i])
           eq == IndexByte(part, 61)
       IN IF eq = 0 THEN authParamFrom(parts, i + 1, k, sofar)
          ELSE LET name == TrimSpace(SubSeq(part, 1, eq - 1))
                   val == Trim(TrimSpace(SubSeq(part, eq + 1, Len(part))), 34)
               IN authParamFrom(parts, i + 1, k,
                                IF name = k THEN val ELSE sofar)

\* parseAuthParams(s)[k]
parseAuthParams(s, k) == authParamFrom(Split(s, 44), 1, k, << >>)

\* getToken, up to its request: the realm of the challenge
realmOf(challenge) ==
  parseAuthParams(TrimPrefix(challenge, << 66, 101, 97, 114, 101, 114, 32 >>), << 114, 101, 97, 108, 109 >>)

\* registry hosts "r.io" and, with a port, "r:5"; image paths "a" and "a429"
FetchHosts == { << 114, 46, 105, 111 >>, << 114, 58, 53 >> }
FetchPaths == { << 97 >>, << 97, 52, 50, 57 >> }

\* Link headers of a 200 answer: none, a relative next page, a previous page
\* before a relative next page, an absolute next page, a previous page only
Links ==
  { << >>, << 60, 47, 110, 62, 59, 32, 114, 101, 108, 61, 34, 110, 101, 120, 116, 34 >>, << 60, 47, 112, 62, 59, 32, 114, 101, 108, 61, 34, 112, 114, 101, 118, 34, 44, 32, 60, 47, 110, 62, 59, 32, 114, 101, 108, 61, 34, 110, 101, 120, 116, 34 >>,
    << 60, 104, 116, 116, 112, 115, 58, 47, 47, 120, 47, 110, 62, 59, 32, 114, 101, 108, 61, 34, 110, 101, 120, 116, 34 >>, << 60, 47, 112, 62, 59, 32, 114, 101, 108, 61, 34, 112, 114, 101, 118, 34 >> }

\* WWW-Authenticate headers of a 401 answer: none, a Bearer challenge with
\* realm and service, a Bearer challenge without realm, a Basic challenge
Challenges ==
  { << >>, << 66, 101, 97, 114, 101, 114, 32, 114, 101, 97, 108, 109, 61, 34, 104, 116, 116, 112, 115, 58, 47, 47, 116, 47, 107, 34, 44, 115, 101, 114, 118, 105, 99, 101, 61, 34, 115, 34 >>,
    << 66, 101, 97, 114, 101, 114, 32, 115, 101, 114, 118, 105, 99, 101, 61, 34, 115, 34 >>, << 66, 97, 115, 105, 99, 32, 114, 101, 97, 108, 109, 61, 34, 98, 34 >> }

\* what one HTTP request to a registry comes back with: a transport error
\* (timeout included) or a status with its headers and body
Responses ==
  {[status |-> 0, challenge |-> << >>, link |-> << >>, body |-> "none"]}
  \cup {[status |-> 200, challenge |-> << >>, link |-> l, body |-> b] :
          l \in Links, b \in {"tags", "bad"}}
  \cup {[status |-> 401, challenge |-> c, link |-> << >>, body |-> "none"] :
          c \in Challenges}
  \cup {[status |-> s, challenge |-> << >>, link |-> << >>, body |-> "none"] :
          s \in {429, 500}}

\* what the token request comes back with; a decoded body has the fields
\* token and access_token
TokenResponses ==
  {[status |-> s, body |-> "none", token |-> << >>, access_token |-> << >>] :
     s \in {0, 429, 500}}
  \cup {[status |-> 200, body |-> "bad", token |-> << >>,
         access_token |-> << >>]}
  \cup {[status |-> 200, body |-> "json", token |-> t, access_token |-> a] :
          t \in {<< >>, << 120 >>}, a \in {<< >>, << 121 >>}}

\* the URL of the first page (listTags, checkOCI)
firstURL(host, path) ==
  << 104, 116, 116, 112, 115, 58, 47, 47 >> \o host \o << 47, 118, 50, 47 >> \o path \o << 47, 116, 97, 103, 115, 47, 108, 105, 115, 116, 63, 110, 61, 49, 48, 48, 48 >>

\* strings.Replace(reqURL, "https://", "http://", 1)
httpURL(reqURL) ==
  LET i == Index(reqURL, << 104, 116, 116, 112, 115, 58, 47, 47 >>)
  IN IF i = 0 THEN reqURL
     ELSE SubSeq(reqURL, 1, i - 1) \o << 104, 116, 116, 112, 58, 47, 47 >>
          \o SubSeq(reqURL, i + 8, Len(reqURL))

\* the token URL getToken builds from realm and service
tokenURL(challenge) ==
  LET service == parseAuthParams(TrimPrefix(challenge, << 66, 101, 97, 114, 101, 114, 32 >>),
                                 << 115, 101, 114, 118, 105, 99, 101 >>)
  IN realmOf(challenge)
     \o (IF service = << >> THEN << >> ELSE << 63, 115, 101, 114, 118, 105, 99, 101, 61 >> \o service)

\* the text of the error of a failed client.Get(url)
getError(url) == << 71, 101, 116, 32, 34 >> \o url \o << 34, 58, 32, 69, 79, 70 >>

\* no token body has been decoded
NoToken == [ok |-> FALSE, token |-> << >>, access_token |-> << >>]

\* one query for the tags of host/path is about to be made by a check
StartFetch(host, path) ==
  [pc |-> "idle", host |-> host, path |-> path, tagURL |-> << >>,
   log |-> << >>, asked |-> << >>, challenge |-> << >>,
   tokenURL |-> << >>, token |-> << >>,
   tokenResp |-> NoToken, status |-> 0, retried |-> -1, pageDone |-> FALSE, err |-> << >>,
   skipped |-> FALSE, limited |-> FALSE]

InitFetch ==
  /\ env = Healthy
  /\ InitServer
  /\ ckKind \in {"image", "chart"}
  /\ now = 0
  /\ checking = FALSE
  /\ lastCheck = 0
  /\ cache = << >>
  /\ call = << >>
  /\ lastDone = 0
  /\ windows = << >>
  /\ dep = << >>
  /\ eval \in {StartFetch(h, p) : h \in FetchHosts, p \in FetchPaths}

\* what a step of the query leaves alone
notFetch == << srvVars, dep, exceptCall, call >>

\* Check is entered (the image checker takes the single-flight flag) and
\* the query starts with its first page
FetchCheck ==
  /\ eval.pc = "idle"
  /\ ckKind = "image" => ~checking
  /\ checking' = (ckKind = "image")
  /\ eval' = [eval EXCEPT !.pc = "get",
                          !.tagURL = firstURL(eval.host, eval.path)]
  /\ UNCHANGED notFetch

\* a page request ends with an error
failed(e, text) ==
  [e EXCEPT !.pc = "failed", !.pageDone = TRUE, !.err = text]

\* a page request ends with a 200 answer r: listTags decodes the body and
\* goes on with the next page, if the Link header names one
pageRead(e, r) ==
  IF r.body = "bad"
  THEN failed(e, << 112, 97, 114, 115, 105, 110, 103, 32, 116, 97, 103, 115, 58, 32, 105, 110, 118, 97, 108, 105, 100, 32, 99, 104, 97, 114, 97, 99, 116, 101, 114 >>)
  ELSE LET nextURL == parseLinkNext(r.link, e.tagURL)
       IN IF nextURL = << >>
          THEN [e EXCEPT !.pc = "sleep", !.pageDone = TRUE]
          ELSE [e EXCEPT !.pc = "get", !.pageDone = TRUE,
                         !.tagURL = nextURL]

\* fetchWithAuth / fetchWithAuthPaginated after the first answer r, which
\* came from the URL asked
answered(e0, r, asked) ==
  LET e == [e0 EXCEPT !.asked = asked, !.challenge = r.challenge,
                      !.status = r.status,
                      !.limited = e0.limited \/ r.status = 429]
  IN IF ckKind = "image" /\ r.status = 429
     THEN failed(e, << 52, 50, 57, 32, 114, 97, 116, 101, 32, 108, 105, 109, 105, 116, 101, 100 >>)
     ELSE IF r.status = 401
     THEN IF r.challenge = << >>
          THEN failed(e, << 52, 48, 49, 32, 119, 105, 116, 104, 32, 110, 111, 32, 87, 87, 87, 45, 65, 117, 116, 104, 101, 110, 116, 105, 99, 97, 116, 101, 32, 104, 101, 97, 100, 101, 114 >>)
          ELSE IF realmOf(r.challenge) = << >>
          THEN failed(e, << 103, 101, 116, 116, 105, 110, 103, 32, 97, 117, 116, 104, 32, 116, 111, 107, 101, 110, 58, 32, 110, 111, 32, 114, 101, 97, 108, 109, 32, 105, 110, 32, 99, 104, 97, 108, 108, 101, 110, 103, 101, 58, 32 >>
                         \o TrimPrefix(r.challenge, << 66, 101, 97, 114, 101, 114, 32 >>))
          ELSE [e EXCEPT !.pc = "token",
                         !.tokenURL = tokenURL(r.challenge)]
     ELSE IF r.status # 200
     THEN failed(e, << 114, 101, 103, 105, 115, 116, 114, 121, 32, 114, 101, 116, 117, 114, 110, 101, 100, 32 >> \o Itoa(r.status))
     ELSE pageRead(e, r)

\* client.Get(reqURL), the first request of a page
FetchGet ==
  /\ eval.pc = "get"
  /\ \E r \in Responses :
       LET e == [eval EXCEPT
                   !.log = << [to |-> eval.tagURL, auth |-> << >>] >>,
                   !.asked = << >>, !.challenge = << >>,
                   !.tokenURL = << >>, !.token = << >>,
                   !.tokenResp = NoToken, !.status = 0, !.retried = -1,
                   !.pageDone = FALSE]
       IN eval' =
            IF r.status = 0
            THEN IF ckKind = "image" /\ Contains(eval.host, << 58 >>)
                 THEN [e EXCEPT !.pc = "fallback"]
                 ELSE failed(e, << 102, 101, 116, 99, 104, 105, 110, 103, 32 >> \o eval.tagURL \o << 58, 32 >>
                                \o getError(eval.tagURL))
            ELSE answered(e, r, eval.tagURL)
  /\ UNCHANGED << checking, notFetch >>

\* ic.insecure.Get(httpURL) after HTTPS failed on a host with a port
FetchFallback ==
  /\ eval.pc = "fallback"
  /\ \E r \in Responses :
       LET u == httpURL(eval.tagURL)
           e == [eval EXCEPT
                   !.log = Append(eval.log, [to |-> u, auth |-> << >>])]
       IN eval' =
            IF r.status = 0
            THEN failed(e, << 102, 101, 116, 99, 104, 105, 110, 103, 32 >> \o eval.tagURL \o << 58, 32 >>
                           \o getError(u))
            ELSE answered(e, r, u)
  /\ UNCHANGED << checking, notFetch >>

\* getToken: the request to the URL built from the challenge, and the token
\* of its answer
FetchToken ==
  /\ eval.pc = "token"
  /\ \E t \in TokenResponses :
       LET u == eval.tokenURL
           e == [eval EXCEPT
                   !.log = Append(eval.log, [to |-> u, auth |-> << >>]),
                   !.tokenResp = IF t.status = 200 /\ t.body = "json"
                                 THEN [ok |-> TRUE, token |-> t.token,
                                       access_token |-> t.access_token]
                                 ELSE NoToken]
       IN eval' =
            IF t.status = 0
            THEN failed(e, << 103, 101, 116, 116, 105, 110, 103, 32, 97, 117, 116, 104, 32, 116, 111, 107, 101, 110, 58, 32, 102, 101, 116, 99, 104, 105, 110, 103, 32, 116, 111, 107, 101, 110, 32, 102, 114, 111, 109, 32 >>
                           \o u \o << 58, 32 >> \o getError(u))
            ELSE IF t.status # 200
            THEN failed(e, << 103, 101, 116, 116, 105, 110, 103, 32, 97, 117, 116, 104, 32, 116, 111, 107, 101, 110, 58, 32, 116, 111, 107, 101, 110, 32, 101, 110, 100, 112, 111, 105, 110, 116, 32, 114, 101, 116, 117, 114, 110, 101, 100, 32 >>
                           \o Itoa(t.status))
            ELSE IF t.body = "bad"
            THEN failed(e, << 103, 101, 116, 116, 105, 110, 103, 32, 97, 117, 116, 104, 32, 116, 111, 107, 101, 110, 58, 32, 112, 97, 114, 115, 105, 110, 103, 32, 116, 111, 107, 101, 110, 32, 114, 101, 115, 112, 111, 110, 115, 101 >>)
            ELSE [e EXCEPT !.pc = "retry",
                           !.token = IF t.token # << >> THEN t.token
                                     ELSE t.access_token]
  /\ UNCHANGED << checking, notFetch >>

\* the URL the request with the token goes to
retryURL(e) == e.tagURL

\* client.Do(req) with the Authorization header
FetchRetry ==
  /\ eval.pc = "retry"
  /\ \E r \in Responses :
       LET e == [eval EXCEPT
                   !.log = Append(eval.log,
                                  [to |-> retryURL(eval),
                                   auth |-> << 66, 101, 97, 114, 101, 114, 32 >> \o eval.token]),
                   !.retried = r.status,
                   !.limited = eval.limited \/ r.status = 429]
       IN eval' =
            IF r.status = 0
            THEN failed(e, << 97, 117, 116, 104, 101, 110, 116, 105, 99, 97, 116, 101, 100, 32, 114, 101, 113, 117, 101, 115, 116, 58, 32 >>
                           \o getError(eval.tagURL))
            ELSE IF r.status # 200
            THEN failed(e, << 114, 101, 103, 105, 115, 116, 114, 121, 32, 114, 101, 116, 117, 114, 110, 101, 100, 32 >> \o Itoa(r.status)
                           \o << 32, 97, 102, 116, 101, 114, 32, 97, 117, 116, 104 >>)
            ELSE pageRead(e, r)
  /\ UNCHANGED << checking, notFetch >>

\* the error is one of a rate limit, as Check sees it
isRateLimit(e) == Contains(e.err, << 52, 50, 57 >>)

\* Check after a failed query: the registry is skipped for the rest of the
\* cycle if the error is one of a rate limit
FetchFailed ==
  /\ eval.pc = "failed"
  /\ eval' = [eval EXCEPT !.pc = "sleep",
                          !.skipped = ckKind = "image" /\ isRateLimit(eval)]
  /\ UNCHANGED << checking, notFetch >>

\* Check sleeps after the query and returns; the deferred Store clears the
\* flag of the image checker
FetchReturn ==
  /\ eval.pc = "sleep"
  /\ eval' = [eval EXCEPT !.pc = "returned"]
  /\ checking' = FALSE
  /\ UNCHANGED notFetch

NextFetch ==
  \/ FetchCheck
  \/ FetchGet
  \/ FetchFallback
  \/ FetchToken
  \/ FetchRetry
  \/ FetchFailed
  \/ FetchReturn

\* one tag-list query of a check, with registries answering in any way
SpecFetch == InitFetch /\ [][NextFetch]_vars

\* the same, when every request returns or times out and the checker
\* goes on
SpecFetchFair == SpecFetch /\ WF_vars(NextFetch)

\* the page request was answered 401 with a Bearer challenge that names a
\* realm, and the token request was answered with a token body
BearerChallenged ==
  /\ eval.pc \in {"get", "failed", "sleep", "returned"}
  /\ eval.pageDone
  /\ eval.status = 401
  /\ HasPrefix(eval.challenge, << 66, 101, 97, 114, 101, 114, 32 >>)
  /\ realmOf(eval.challenge) # << >>
  /\ eval.tokenResp.ok

\* C21: a page request answered 401 with a Bearer challenge makes exactly
\* one token request, to the realm of the challenge, and then exactly one
\* more request, to the URL that was answered 401 and with the header
\* Authorization: Bearer <token>, the token being the field token or else
\* access_token; a retry answered other than 200 ends the page request with
\* an error; a 401 without WWW-Authenticate header ends it with an error
\* and without a token request.
C21_BearerChallenge ==
  /\ BearerChallenged =>
       LET n == Len(eval.log)
       IN /\ n >= 3
          /\ \A i \in 1..n - 2 : eval.log[i].to # tokenURL(eval.challenge)
          /\ HasPrefix(eval.log[n - 1].to, realmOf(eval.challenge))
          /\ eval.log[n - 1].auth = << >>
          /\ eval.log[n - 2].to = eval.asked
          /\ eval.log[n].to = eval.asked
          /\ eval.log[n].auth =
               << 66, 101, 97, 114, 101, 114, 32 >> \o (IF eval.tokenResp.token # << >>
                               THEN eval.tokenResp.token
                               ELSE eval.tokenResp.access_token)
          /\ eval.retried # 200 => eval.err # << >>
  /\ ( /\ eval.pageDone
       /\ eval.status = 401
       /\ eval.challenge = << >> )
       => /\ eval.err # << >>
          /\ \A i \in DOMAIN eval.log : eval.log[i].auth = << >>
          /\ Len(eval.log) <= 2

\* C29: every image Check call returns in the end and leaves the
\* single-flight flag cleared, however the registries answer.
C29_CheckReturns ==
  (ckKind = "image") => <>(eval.pc = "returned" /\ ~checking)

\* C30: the image checker puts a registry into the skip set of the cycle
\* only if a request to that registry host was answered 429 in the cycle.
C30_SkipOnlyOn429 ==
  (ckKind = "image" /\ eval.pc \in {"sleep", "returned"} /\ eval.skipped)
    => eval.limited

\* C22: within one check a query of the chart checker is never followed by
\* the next query without the pause in between, whether it failed or not.
C22_Pacing ==
  [][\A c \in Callers :
       (call[c].pc = "chartQuery" /\ call'[c] # call[c])
         => call'[c].pc # "chartQuery"]_vars

\* C23: a refresh that is ready to publish (it waits for s.mu.Lock) is never
\* held up by a GET /api/diagrams handler that has copied the snapshot and
\* is encoding and writing its response.
C23_ReadersDoNotHoldUp ==
  \A g \in Goroutines : \A r \in Readers :
    ~(frame[g].pc = "lock" /\ ~CanLock /\ ~muWriter /\ rd[r].pc = "encode")

(***************************************************************************)
(* internal/diagram: the topology generators over two refreshes            *)
(***************************************************************************)
\* ---- bound of the topology runs: the most nodes of a tfstate source ----
MaxNodes == 2

\* strings.ToUpper
ToUpper(s) ==
  [i \in DOMAIN s |-> IF s[i] >= 97 /\ s[i] <= 122 THEN s[i] - 32 ELSE s[i]]

\* strings.TrimSuffix
TrimSuffix(s, p) ==
  IF Len(p) <= Len(s) /\ SubSeq(s, Len(s) - Len(p) + 1, Len(s)) = p
  THEN SubSeq(s, 1, Len(s) - Len(p)) ELSE s

\* sanitizeID: every character that is not a letter or a digit becomes "_"
sanitizeID(name) ==
  [i \in DOMAIN name |->
     IF \/ name[i] >= 48 /\ name[i] <= 57
        \/ name[i] >= 65 /\ name[i] <= 90
        \/ name[i] >= 97 /\ name[i] <= 122
     THEN name[i] ELSE 95]

\* fmt.Sprintf("<prefix>%d", i) for an index below ten
indexID(prefix, i) == prefix \o << 48 + i >>

\* generateTFSourceDiagram: one node line per Terraform node, in slice
\* order
generateTFSourceDiagram(nodes) ==
  [i \in DOMAIN nodes |->
     [t |-> "node", id |-> indexID(<< 116, 102 >>, i - 1), label |-> nodes[i]]]

\* networkName of generateMeshTopology when no infra source has the name
networkName(network) == ToUpper(TrimSuffix(network, NetworkSuffix))

\* the lines of one remote cluster subgraph
remoteLines(network, ip, remoteIdx) ==
  << [t |-> "subgraph", id |-> indexID(<< 114, 101, 109, 111, 116, 101 >>, remoteIdx),
      label |-> networkName(network)],
     [t |-> "node", id |-> indexID(<< 101, 119, 103, 119, 95, 114 >>, remoteIdx), label |-> ip],
     [t |-> "end", id |-> << >>, label |-> << >>] >>

\* the concatenation of the sequences f[1], ..., f[n]
RECURSIVE Flatten(_)
Flatten(f) ==
  IF Len(f) = 0 THEN << >>
  ELSE Flatten(SubSeq(f, 1, Len(f) - 1)) \o f[Len(f)]

\* generateMeshTopology, its content, line by line, when the map
\* remoteNetworks is ranged over in the order o1 and the map remoteGwIDs in
\* the order o2; << >> stands for the nil result
generateMeshTopologyContent(gws, ses, o1, o2) ==
  LET crossIdx == {i \in DOMAIN ses : ses[i].Location = "MESH_EXTERNAL"
                                      /\ ses[i].Network # << >>}
      crossCluster == [k \in 1..Cardinality(crossIdx) |->
                         ses[CHOOSE i \in crossIdx :
                               Cardinality({j \in crossIdx : j < i}) = k - 1]]
      localNetwork == IF Len(gws) = 0 THEN << >> ELSE gws[1].Network
      hasLocalGW == Len(gws) > 0
      \* the last entry of a network sets the map value; the endpoint
      \* address of an entry is written with the entry's name
      ipOf(n) == crossCluster[CHOOSE i \in DOMAIN crossCluster :
                   /\ crossCluster[i].Network = n
                   /\ \A j \in DOMAIN crossCluster :
                        crossCluster[j].Network = n => j <= i].Name
      remoteGwIDs == [k \in DOMAIN o1 |-> indexID(<< 101, 119, 103, 119, 95, 114 >>, k - 1)]
      gwIDOf(n) == remoteGwIDs[CHOOSE k \in DOMAIN o1 : o1[k] = n]
      isRemote(n) == \E k \in DOMAIN o1 : o1[k] = n
  IN IF Len(gws) = 0 /\ Len(crossCluster) = 0 THEN << >>
     ELSE << [t |-> "graph", id |-> << >>, label |-> << >>] >>
          \o (IF hasLocalGW
              THEN << [t |-> "subgraph", id |-> << 108, 111, 99, 97, 108 >>,
                       label |-> networkName(localNetwork)] >>
                   \o [i \in DOMAIN gws |->
                         [t |-> "node", id |-> indexID(<< 101, 119, 103, 119, 95, 108 >>, i - 1),
                          label |-> gws[i].IP]]
                   \o << [t |-> "end", id |-> << >>, label |-> << >>] >>
              ELSE << >>)
          \o Flatten([k \in DOMAIN o1 |->
                        remoteLines(o1[k], ipOf(o1[k]), k - 1)])
          \o (IF hasLocalGW
              THEN [k \in DOMAIN o2 |->
                      [t |-> "tunnel", id |-> gwIDOf(o2[k]),
                       label |-> << >>]]
              ELSE << >>)
          \o (IF Len(crossCluster) > 0
              THEN << [t |-> "subgraph", id |-> << 120, 99, 108, 117, 115, 116, 101, 114 >>,
                       label |-> << >>] >>
                   \o [i \in DOMAIN crossCluster |->
                         [t |-> "node", id |-> indexID(<< 115, 101 >>, i - 1),
                          label |-> crossCluster[i].Name]]
                   \o << [t |-> "end", id |-> << >>, label |-> << >>] >>
                   \o Flatten([i \in DOMAIN crossCluster |->
                        (IF hasLocalGW
                         THEN << [t |-> "arrow", id |-> << 101, 119, 103, 119, 95, 108, 48 >>,
                                  label |-> indexID(<< 115, 101 >>, i - 1)] >>
                         ELSE << >>)
                        \o (IF isRemote(crossCluster[i].Network)
                            THEN << [t |-> "arrow",
                                     id |-> indexID(<< 115, 101 >>, i - 1),
                                     label |->
                                       gwIDOf(crossCluster[i].Network)] >>
                            ELSE << >>)])
              ELSE << >>)

\* the keys of the map remoteNetworks
remoteNetworks(gws, ses) ==
  {ses[i].Network : i \in
     {j \in DOMAIN ses : /\ ses[j].Location = "MESH_EXTERNAL"
                         /\ ses[j].Network # << >>
                         /\ ses[j].Network #
                              (IF Len(gws) = 0 THEN << >>
                               ELSE gws[1].Network)}}

\* the names of Terraform nodes: "n-1", "n.2"
NodeNames == { << 110, 45, 49 >>, << 110, 46, 50 >> }

\* the node lists of a tfstate source: no name twice
NodeLists ==
  UNION { {q \in [1..n -> NodeNames] :
             \A i, j \in 1..n : i # j => q[i] # q[j]} : n \in 0..MaxNodes }

\* data.EastWestGateways: none, or one in the network "n-n"
GatewayLists ==
  { << >>, << [Network |-> << 110 >> \o NetworkSuffix, IP |-> << 49, 48, 46, 48, 46, 48, 46, 49 >>] >> }

\* two refreshes are about to generate the topology diagrams; the second
\* snapshot differs from the first at most in the Terraform nodes
InitTopology ==
  /\ env = Healthy
  /\ InitServer
  /\ IdleChecker
  /\ dep = << >>
  /\ eval \in {[pc |-> "first", gws |-> g, ses |-> s, nodes |-> n,
                nodes2 |-> n2, mesh |-> << >>, mesh2 |-> << >>,
                tf |-> << >>, tf2 |-> << >>] :
               g \in GatewayLists, s \in SEInputs, n \in NodeLists,
               n2 \in NodeLists}

\* GenerateTopologySections in the first refresh
TopologyFirst ==
  /\ eval.pc = "first"
  /\ \E o1 \in Orders(remoteNetworks(eval.gws, eval.ses)) :
       \E o2 \in Orders(remoteNetworks(eval.gws, eval.ses)) :
         eval' = [eval EXCEPT
           !.pc = "second",
           !.mesh = generateMeshTopologyContent(eval.gws, eval.ses, o1, o2),
           !.tf = generateTFSourceDiagram(eval.nodes)]
  /\ UNCHANGED notEval

\* GenerateTopologySections in the second refresh
TopologySecond ==
  /\ eval.pc = "second"
  /\ \E o1 \in Orders(remoteNetworks(eval.gws, eval.ses)) :
       \E o2 \in Orders(remoteNetworks(eval.gws, eval.ses)) :
         eval' = [eval EXCEPT
           !.pc = "done",
           !.mesh2 = generateMeshTopologyContent(eval.gws, eval.ses, o1, o2),
           !.tf2 = generateTFSourceDiagram(eval.nodes2)]
  /\ UNCHANGED notEval

NextTopology ==
  \/ TopologyFirst
  \/ TopologySecond

\* the topology diagrams of two refreshes
SpecTopology == InitTopology /\ [][NextTopology]_vars

\* C24: two runs on the same snapshot give the same content: the mesh
\* topology diagram of the second refresh equals that of the first, and so
\* does the diagram of a tfstate source with the same nodes.
C24_Deterministic ==
  eval.pc = "done" =>
    /\ eval.mesh2 = eval.mesh
    /\ eval.nodes2 = eval.nodes => eval.tf2 = eval.tf

\* C25: the identifier of a node is its logical name with every
\* non-alphanumeric character replaced by "_", and a node shown in both
\* refreshes has the same identifier in both, whatever else was added,
\* removed or reordered.
C25_StableIdentifiers ==
  eval.pc = "done" =>
    /\ \A i \in DOMAIN eval.tf : eval.tf[i].id = sanitizeID(eval.tf[i].label)
    /\ \A i \in DOMAIN eval.tf : \A j \in DOMAIN eval.tf2 :
         eval.tf[i].label = eval.tf2[j].label
           => eval.tf[i].id = eval.tf2[j].id

(***************************************************************************)
(* internal/diagram: the freshness columns of the table rows               *)
(***************************************************************************)
\* GenerateImages: Latest and Outdated of the row of a deployed tag
ImageRow(ri, tag) ==
  LET v == GetLatest(ri, tag)
  IN [Latest |-> ImageRowLatest(v),
      Outdated |-> v # "" /\ v # "-" /\ v # tag]

\* NodeChecker.GetLatestOS and GetLatestKubelet: the map entries, "" when
\* there is none
GetLatestOS(distro) == cache.latestOS[distro]

GetLatestKubelet(minor) == cache.latestK8s[minor]

\* GenerateNodes: the freshness columns of the row of a node that runs the
\* given distro in version osVer and the kubelet version kubelet of the
\* given minor series (versions are written without a leading "v")
NodeRow(distro, osVer, minor, kubelet) ==
  LET os == GetLatestOS(distro)
      k == GetLatestKubelet(minor)
  IN [LatestOS |-> IF os # "" THEN os ELSE "",
      OSOutdated |-> os # "" /\ osVer # "" /\ os # osVer,
      LatestKubelet |-> IF k # "" THEN k ELSE "",
      KubeletOutdated |-> k # "" /\ k # kubelet]

\* C26: a row for which the freshness cache has no entry shows "-" as its
\* latest value(s) and false as its outdated flag(s): the rows of the images
\* table, and the OS and the kubelet columns of the rows of the nodes table.
C26_MissingFreshness ==
  /\ ckKind = "image" =>
       \A ri \in Repos : \A t \in ri.tags :
         GetLatest(ri, t) = "" =>
           ImageRow(ri, t).Latest = "-" /\ ~ImageRow(ri, t).Outdated
  /\ ckKind = "node" =>
       \A d \in Distros : \A m \in MinorVersions :
         LET row == NodeRow(d, "1.0", m, "1.31.0")
         IN /\ GetLatestOS(d) = "" =>
                 row.LatestOS = "-" /\ ~row.OSOutdated
            /\ GetLatestKubelet(m) = "" =>
                 row.LatestKubelet = "-" /\ ~row.KubeletOutdated

\* ====================================================================
\* The namespace rows of a snapshot
\* ====================================================================

\* ---- bound of the namespace lists: the most namespaces of a cluster ----
MaxNamespaces == 2

\* parseNamespaces: the prefixes and the names of the system namespaces
systemPrefixes ==
  << << 107, 117, 98, 101, 45 >>, << 102, 108, 117, 120, 45 >>, << 99, 101, 114, 116, 45, 109, 97, 110, 97, 103, 101, 114 >>, << 101, 110, 118, 111, 121, 45, 103, 97, 116, 101, 119, 97, 121 >>,
     << 105, 115, 116, 105, 111, 45 >>, << 99, 110, 112, 103, 45 >>, << 114, 111, 111, 107, 45 >>, << 111, 116, 45, 111, 112, 101, 114, 97, 116, 111, 114, 115 >> >>

systemExact ==
  { << 100, 101, 102, 97, 117, 108, 116 >>, << 107, 117, 98, 101, 45, 115, 121, 115, 116, 101, 109 >>, << 107, 117, 98, 101, 45, 112, 117, 98, 108, 105, 99 >>, << 107, 117, 98, 101, 45, 110, 111, 100, 101, 45, 108, 101, 97, 115, 101 >>,
    << 102, 108, 117, 120, 45, 115, 121, 115, 116, 101, 109 >>, << 108, 111, 99, 97, 108, 45, 112, 97, 116, 104, 45, 115, 116, 111, 114, 97, 103, 101 >> }

\* parseNamespaces: the test of its loop that skips a namespace
skip_exactOnly(name) == name \in systemExact

skip(name) ==
  \/ name \in systemExact
  \/ \E i \in DOMAIN systemPrefixes : HasPrefix(name, systemPrefixes[i])

\* the rows of the names of a list that are not skipped, in list order
RECURSIVE keptRows(_, _)
keptRows(clusterName, items) ==
  IF items = << >> THEN << >>
  ELSE LET rest == keptRows(clusterName, Tail(items))
       IN IF skip(Head(items)) THEN rest
          ELSE << [Name |-> Head(items), Cluster |-> clusterName] >> \o rest

\* KubernetesParser.parseNamespaces on the answer of the list call: no rows
\* when the call failed
parseNamespaces(clusterName, resp) ==
  IF resp.err THEN << >> ELSE keptRows(clusterName, resp.items)

\* the order of the sort of refresh: by cluster, then by name
namespaceLess(a, b) ==
  IF a.Cluster # b.Cluster THEN StrLess(a.Cluster, b.Cluster)
  ELSE StrLess(a.Name, b.Name)

RECURSIVE insertNamespace(_, _)
insertNamespace(row, sorted) ==
  IF sorted = << >> THEN << row >>
  ELSE IF namespaceLess(row, Head(sorted)) THEN << row >> \o sorted
  ELSE << Head(sorted) >> \o insertNamespace(row, Tail(sorted))

RECURSIVE sortNamespaces(_)
sortNamespaces(rows) ==
  IF rows = << >> THEN << >>
  ELSE insertNamespace(Head(rows), sortNamespaces(Tail(rows)))

\* Server.refresh: the namespaces of the primary cluster's ParseAll, then
\* those of the secondary cluster's ParseSecurity, then the sort
refreshNamespaces(primary, secondary) ==
  sortNamespaces(parseNamespaces(ClusterH, primary)
                   \o parseNamespaces(ClusterN, secondary))

\* namespace names a cluster can hold
NamespaceNames ==
  { << 100, 101, 102, 97, 117, 108, 116 >>, << 100, 101, 102, 97, 117, 108, 116, 115 >>, << 107, 117, 98, 101, 45, 115, 121, 115, 116, 101, 109 >>, << 107, 117, 98, 101, 45, 120 >>, << 107, 117, 98, 101 >>,
    << 114, 111, 111, 107, 45, 99 >>, << 99, 101, 114, 116, 45, 109, 97, 110, 97, 103, 101, 114, 115 >>, << 97, 112, 112 >> }

\* the answers of a list call: an error, or a list of distinct names
ListAnswers ==
  {[err |-> TRUE, items |-> << >>]}
  \cup {[err |-> FALSE, items |-> l] :
          l \in {m \in UNION {[1..n -> NamespaceNames] :
                                n \in 0..MaxNamespaces} :
                   \A i, j \in DOMAIN m : i # j => m[i] # m[j]}}

\* a refresh is about to list the namespaces of both clusters
InitNamespaces ==
  /\ env = Healthy
  /\ InitServer
  /\ IdleChecker
  /\ dep = << >>
  /\ eval \in {[pc |-> "call", primary |-> p, secondary |-> s,
                Namespaces |-> << >>] : p \in ListAnswers, s \in ListAnswers}

RefreshNamespaces ==
  /\ eval.pc = "call"
  /\ eval' = [eval EXCEPT
       !.pc = "done",
       !.Namespaces = refreshNamespaces(eval.primary, eval.secondary)]
  /\ UNCHANGED notEval

NextNamespaces == RefreshNamespaces

\* the namespace rows of a refresh for any answers of the two clusters
SpecNamespaces == InitNamespaces /\ [][NextNamespaces]_vars

\* the names the filter is to keep out: the reserved literals and the names
\* that start with a reserved prefix
Reserved(name) ==
  \/ name \in { << 100, 101, 102, 97, 117, 108, 116 >>, << 107, 117, 98, 101, 45, 115, 121, 115, 116, 101, 109 >>, << 107, 117, 98, 101, 45, 112, 117, 98, 108, 105, 99 >>,
                << 107, 117, 98, 101, 45, 110, 111, 100, 101, 45, 108, 101, 97, 115, 101 >>, << 102, 108, 117, 120, 45, 115, 121, 115, 116, 101, 109 >>,
                << 108, 111, 99, 97, 108, 45, 112, 97, 116, 104, 45, 115, 116, 111, 114, 97, 103, 101 >> }
  \/ \E p \in { << 107, 117, 98, 101, 45 >>, << 102, 108, 117, 120, 45 >>, << 99, 101, 114, 116, 45, 109, 97, 110, 97, 103, 101, 114 >>, << 101, 110, 118, 111, 121, 45, 103, 97, 116, 101, 119, 97, 121 >>,
                << 105, 115, 116, 105, 111, 45 >>, << 99, 110, 112, 103, 45 >>, << 114, 111, 111, 107, 45 >>, << 111, 116, 45, 111, 112, 101, 114, 97, 116, 111, 114, 115 >> } :
       Len(p) <= Len(name) /\ SubSeq(name, 1, Len(p)) = p

\* the snapshot has a row of the given cluster and name
HasRow(clusterName, name) ==
  \E i \in DOMAIN eval.Namespaces :
    eval.Namespaces[i].Cluster = clusterName /\ eval.Namespaces[i].Name = name

\* the names of a returned list
Listed(resp) == {resp.items[i] : i \in DOMAIN resp.items}

\* C27: for every list of namespaces returned by the primary or by the
\* secondary cluster, a namespace of the list has a row among the snapshot's
\* namespace rows exactly when its name is neither a reserved literal nor
\* starts with a reserved prefix.
C27_NamespaceFilter ==
  eval.pc = "done" =>
    /\ ~eval.primary.err =>
         \A n \in Listed(eval.primary) : HasRow(ClusterH, n) <=> ~Reserved(n)
    /\ ~eval.secondary.err =>
         \A n \in Listed(eval.secondary) : HasRow(ClusterN, n) <=> ~Reserved(n)

\* both clusters returned a list with a reserved-prefix name and another
\* name, and the snapshot has rows of both clusters
C27_Witness ==
  /\ eval.pc = "done"
  /\ ~eval.primary.err /\ ~eval.secondary.err
  /\ << 107, 117, 98, 101, 45, 120 >> \in Listed(eval.primary) /\ << 107, 117, 98, 101 >> \in Listed(eval.primary)
  /\ << 114, 111, 111, 107, 45, 99 >> \in Listed(eval.secondary) /\ << 97, 112, 112 >> \in Listed(eval.secondary)
  /\ HasRow(ClusterH, << 107, 117, 98, 101 >>) /\ HasRow(ClusterN, << 97, 112, 112 >>)
  /\ Len(eval.Namespaces) = 2

\* ====================================================================
\* The highest stable version of a chart index
\* ====================================================================

\* ---- bound of the version lists: the most versions of one chart ----
MaxVersions == 3

\* highestStableSemver: the test of its loop that keeps a parsed version
stable_anyPre(sv) == sv.ok

stable(sv) == sv.ok /\ sv.pre = << >>

\* highestStableSemver: the parsed versions its loop keeps, in list order
RECURSIVE stableSemvers(_)
stableSemvers(versions) ==
  IF versions = << >> THEN << >>
  ELSE LET sv == parseSemver(Head(versions))
           rest == stableSemvers(Tail(versions))
       IN IF stable(sv) THEN << sv >> \o rest ELSE rest

\* sort.Slice with "semvers[j].less(semvers[i])": the orders it can leave,
\* those in which no element is less than a later one (the sort is not
\* stable, so equal versions can come in either order)
sortDescending(semvers) ==
  LET n == Len(semvers)
      perms == {f \in [1..n -> 1..n] : \A i, j \in 1..n : i # j => f[i] # f[j]}
  IN {[i \in 1..n |-> semvers[f[i]]] : f \in
        {g \in perms :
           \A i, j \in 1..n : i < j => ~less(semvers[g[i]], semvers[g[j]])}}

\* highestStableSemver: the strings it can return
highestStableSemver(versions) ==
  LET semvers == stableSemvers(versions)
  IN IF Len(semvers) = 0 THEN { << >> }
     ELSE {sorted[1].original : sorted \in sortDescending(semvers)}

\* versions of a chart index: "1.0", "v1.0.0", "1.9", "1.10", "v1.10.0",
\* "1.10.1-r", "2.0+b", "2.0-rc", and the entries "x" and "1.x"
ChartVersions ==
  { << 49, 46, 48 >>, << 118, 49, 46, 48, 46, 48 >>, << 49, 46, 57 >>, << 49, 46, 49, 48 >>, << 118, 49, 46, 49, 48, 46, 48 >>, << 49, 46, 49, 48, 46, 49, 45, 114 >>,
    << 50, 46, 48, 43, 98 >>, << 50, 46, 48, 45, 114, 99 >>, << 120 >>, << 49, 46, 120 >> }

ChartVersionLists == UNION { [1..n -> ChartVersions] : n \in 0..MaxVersions }

\* the versions of a chart index are about to be searched
InitHighest ==
  /\ env = Healthy
  /\ InitServer
  /\ IdleChecker
  /\ dep = << >>
  /\ eval \in {[pc |-> "call", versions |-> l, out |-> << >>] :
               l \in ChartVersionLists}

HighestStableSemver ==
  /\ eval.pc = "call"
  /\ \E out \in highestStableSemver(eval.versions) :
       eval' = [eval EXCEPT !.pc = "done", !.out = out]
  /\ UNCHANGED notEval

NextHighest == HighestStableSemver

\* the search for the highest stable version of any list
SpecHighest == InitHighest /\ [][NextHighest]_vars

\* the listed entries that parse and have no pre-release part
StableListed ==
  {v \in {eval.versions[i] : i \in DOMAIN eval.versions} :
     parseSemver(v).ok /\ parseSemver(v).pre = << >>}

\* (major, minor, patch) of x is higher than that of y
Exceeds(x, y) ==
  LET a == parseSemver(x)
      b == parseSemver(y)
  IN \/ a.major > b.major
     \/ a.major = b.major /\ a.minor > b.minor
     \/ a.major = b.major /\ a.minor = b.minor /\ a.patch > b.patch

\* C28: highestStableSemver returns the empty string exactly when the list
\* holds no parseable version without a pre-release part; otherwise it
\* returns, spelled as listed, a listed stable version that no other listed
\* stable version exceeds, whatever the pre-release and non-semver entries.
C28_HighestStable ==
  eval.pc = "done" =>
    /\ eval.out = << >> <=> StableListed = {}
    /\ StableListed # {} =>
         /\ eval.out \in StableListed
         /\ \A v \in StableListed : ~Exceeds(v, eval.out)

\* "v1.10.0" is returned from a list of it, the lower "1.9" and the
\* pre-release "2.0-rc"
C28_Witness ==
  /\ eval.pc = "done"
  /\ eval.out = << 118, 49, 46, 49, 48, 46, 48 >>
  /\ {eval.versions[i] : i \in DOMAIN eval.versions}
       = { << 49, 46, 57 >>, << 118, 49, 46, 49, 48, 46, 48 >>, << 50, 46, 48, 45, 114, 99 >> }

====
